---- MODULE Spec2Model ----
(***************************************************************************)
(* A model of boring-cli's task rendering: the Lark rich-text to markdown  *)
(* converter, the Kanban comment-tree formatter and the two backends'      *)
(* get_task_detail.                                                        *)
(*                                                                         *)
(* Python strings are sequences of one-character strings, so that          *)
(* formatting, joining and splitting are computed and not assumed.  JSON   *)
(* values carry their Python type in the field t; a dict is a function     *)
(* from its keys, so a key the payload lacks is a key outside DOMAIN.      *)
(* A call that raises returns Raised.                                      *)
(***************************************************************************)
EXTENDS Integers, Sequences, FiniteSets, TLC

VARIABLES call, ret

vars == <<call, ret>>

----------------------------------------------------------------------------
(* JSON values and the Python operations the code applies to them *)

\* the grave accent, which a TLA+ string cannot hold
BT == "<grave>"

None == [t |-> "none"]
Str(s) == [t |-> "str", v |-> s]
Bool(b) == [t |-> "bool", v |-> b]
Num(n) == [t |-> "int", v |-> n]
List(l) == [t |-> "list", v |-> l]
Dict(d) == [t |-> "dict", v |-> d]
EmptyDict == Dict(<<>>)

Ok(v) == [ok |-> TRUE, v |-> v]
Raised == [ok |-> FALSE]

\* the statements after a call: they run on its value unless it raised
Then(r, F(_)) == IF r.ok THEN F(r.v) ELSE Raised

\* an assignment, name = value, and the statements after it
With(value, F(_)) == F(value)

\* bool(x)
Truthy(j) ==
  CASE j.t = "none" -> FALSE
    [] j.t = "bool" -> j.v
    [] j.t = "int" -> j.v # 0
    [] j.t = "str" -> Len(j.v) > 0
    [] j.t = "list" -> Len(j.v) > 0
    [] j.t = "dict" -> DOMAIN j.v # {}

\* d.get(key, default) on a dict d
Get(d, key, default) == IF key \in DOMAIN d.v THEN d.v[key] ELSE default

RECURSIVE Digits(_)
Digits(n) == IF n < 10 THEN <<SubSeq(<<"0","1","2","3","4","5","6","7","8","9">>, n + 1, n + 1)[1]>>
             ELSE Digits(n \div 10) \o Digits(n % 10)

\* str(x), as an f-string formats a value
Fmt(j) ==
  CASE j.t = "str" -> j.v
    [] j.t = "none" -> <<"N","o","n","e">>
    [] j.t = "bool" -> IF j.v THEN <<"T","r","u","e">> ELSE <<"F","a","l","s","e">>
    [] j.t = "int" -> IF j.v < 0 THEN <<"-">> \o Digits(-j.v) ELSE Digits(j.v)
    [] j.t = "list" /\ j.v = <<>> -> <<"[","]">>
    [] j.t = "dict" /\ DOMAIN j.v = {} -> <<"{","}">>

RECURSIVE Repeat(_, _)
\* s * n
Repeat(s, n) == IF n <= 0 THEN <<>> ELSE s \o Repeat(s, n - 1)

\* s * n for a JSON value n: a TypeError unless n is an integer
Times(s, n) ==
  CASE n.t = "int" -> Ok(Repeat(s, n.v))
    [] n.t = "bool" -> Ok(Repeat(s, IF n.v THEN 1 ELSE 0))
    [] OTHER -> Raised

\* sub in s, for strings
Contains(s, sub) ==
  \E i \in 1..(Len(s) - Len(sub) + 1) : SubSeq(s, i, i + Len(sub) - 1) = sub

RECURSIVE SetToSeq(_)
SetToSeq(S) == IF S = {} THEN <<>>
               ELSE LET x == CHOOSE y \in S : TRUE IN <<x>> \o SetToSeq(S \ {x})

\* the items a for loop over x visits
Iter(x) ==
  CASE x.t = "list" -> Ok(x.v)
    [] x.t = "str" -> Ok([i \in 1..Len(x.v) |-> Str(<<x.v[i]>>)])
    [] x.t = "dict" -> Ok([i \in 1..Cardinality(DOMAIN x.v) |-> Str(<<SetToSeq(DOMAIN x.v)[i]>>)])
    [] OTHER -> Raised

\* sep.join(parts): a TypeError unless every part is a string
RECURSIVE JoinStr(_, _)
JoinStr(sep, parts) ==
  IF parts = <<>> THEN <<>>
  ELSE IF Len(parts) = 1 THEN parts[1]
  ELSE parts[1] \o sep \o JoinStr(sep, Tail(parts))

Join(sep, parts) ==
  IF \A i \in 1..Len(parts) : parts[i].t = "str"
  THEN Ok(JoinStr(sep, [i \in 1..Len(parts) |-> parts[i].v]))
  ELSE Raised

----------------------------------------------------------------------------
(* rich_text_to_markdown, src/boring/backends/lark.py *)

ElementKinds == <<"textRun", "mentionUser", "file", "image", "gallery",
                  "divider", "codeBlock", "callout", "equation", "docs_link">>

KindChars(k) ==
  CASE k = "textRun" -> <<"t","e","x","t","R","u","n">>
    [] k = "mentionUser" -> <<"m","e","n","t","i","o","n","U","s","e","r">>
    [] k = "file" -> <<"f","i","l","e">>
    [] k = "image" -> <<"i","m","a","g","e">>
    [] k = "gallery" -> <<"g","a","l","l","e","r","y">>
    [] k = "divider" -> <<"d","i","v","i","d","e","r">>
    [] k = "codeBlock" -> <<"c","o","d","e","B","l","o","c","k">>
    [] k = "callout" -> <<"c","a","l","l","o","u","t">>
    [] k = "equation" -> <<"e","q","u","a","t","i","o","n">>
    [] k = "docs_link" -> <<"d","o","c","s","_","l","i","n","k">>

\* "<kind>" in element
HasKind(element, k) ==
  CASE element.t = "dict" -> k \in DOMAIN element.v
    [] element.t = "str" -> Contains(element.v, KindChars(k))
    [] element.t = "list" -> \E i \in 1..Len(element.v) :
                                /\ element.v[i].t = "str"
                                /\ element.v[i].v = KindChars(k)
    [] OTHER -> FALSE

\* one inline style: the text between its markers when the flag is set
Styled(flag, open, text, close) ==
  IF Truthy(flag) THEN Str(open \o Fmt(text) \o close) ELSE text

\* ApplyInlineStyle with inline code applied before strikethrough: the order
\* of the wraps is what C5 is about, and it does not hold of this one
ApplyInlineStyle_CodeBeforeStrike(text, style) ==
  IF style.t # "dict" THEN Raised
  ELSE
    With(Styled(Get(style, "strikethrough", None), <<"~","~">>,
           Styled(Get(style, "codeInline", None), <<BT>>,
             Styled(Get(style, "italic", None), <<"*">>,
               Styled(Get(style, "bold", None), <<"*","*">>, text, <<"*","*">>),
             <<"*">>),
           <<BT>>),
         <<"~","~">>), LAMBDA styled :
    LET link == Get(style, "link", EmptyDict)
    IN IF link.t # "dict" THEN Raised
       ELSE IF Truthy(Get(link, "url", None))
       THEN Ok(<<Str(<<"[">> \o Fmt(styled) \o <<"]","(">> \o Fmt(link.v["url"]) \o <<")">>)>>)
       ELSE Ok(<<styled>>))

\* the inline styles of a text run outside a code block
ApplyInlineStyle(text, style) ==
  IF style.t # "dict" THEN Raised
  ELSE
    With(Styled(Get(style, "codeInline", None), <<BT>>,
           Styled(Get(style, "strikethrough", None), <<"~","~">>,
             Styled(Get(style, "italic", None), <<"*">>,
               Styled(Get(style, "bold", None), <<"*","*">>, text, <<"*","*">>),
             <<"*">>),
           <<"~","~">>),
         <<BT>>), LAMBDA styled :
    LET link == Get(style, "link", EmptyDict)
    IN IF link.t # "dict" THEN Raised
       ELSE IF Truthy(Get(link, "url", None))
       THEN Ok(<<Str(<<"[">> \o Fmt(styled) \o <<"]","(">> \o Fmt(link.v["url"]) \o <<")">>)>>)
       ELSE Ok(<<styled>>))

\* TextRunPart styling a run inside a code block too: C8 does not hold of it
TextRunPart_StyledInCodeBlock(textRun, is_code_block) ==
  IF textRun.t # "dict" THEN Raised
  ELSE ApplyInlineStyle(Get(textRun, "text", Str(<<>>)),
                        Get(textRun, "style", EmptyDict))

TextRunPart(textRun, is_code_block) ==
  IF textRun.t # "dict" THEN Raised
  ELSE IF Truthy(is_code_block) THEN Ok(<<Get(textRun, "text", Str(<<>>))>>)
  ELSE ApplyInlineStyle(Get(textRun, "text", Str(<<>>)),
                        Get(textRun, "style", EmptyDict))

MentionPart(mentionUser) ==
  IF mentionUser.t # "dict" THEN Raised
  ELSE Ok(<<Str(<<"@">> \o Fmt(Get(mentionUser, "userId", Str(<<>>))))>>)

FilePart(file) ==
  IF file.t # "dict" THEN Raised
  ELSE
    LET file_token == Get(file, "fileToken", Str(<<>>))
        file_name == Get(file, "name", file_token)
    IN Ok(<<Str(<<"[","F","i","l","e",":"," ">> \o Fmt(file_name) \o <<"]">>)>>)

ImagePart(image) ==
  IF image.t # "dict" THEN Raised
  ELSE Ok(<<Str(<<"!","[","I","m","a","g","e","]","(">> \o Fmt(Get(image, "fileToken", Str(<<>>))) \o <<")">>)>>)

RECURSIVE GalleryImages(_)

\* a variant that puts a blank between the images: C18 does not hold of it
GalleryImages_Separated(images) ==
  IF images = <<>> THEN Ok(<<>>)
  ELSE Then(ImagePart(images[1]), LAMBDA first :
       Then(GalleryImages(Tail(images)), LAMBDA rest :
       Ok(first \o (IF rest = <<>> THEN <<>> ELSE <<Str(<<" ">>)>>) \o rest)))

GalleryImages(images) ==
  IF images = <<>> THEN Ok(<<>>)
  ELSE Then(ImagePart(images[1]), LAMBDA first :
       Then(GalleryImages(Tail(images)), LAMBDA rest : Ok(first \o rest)))

GalleryPart(gallery) ==
  IF gallery.t # "dict" THEN Raised
  ELSE Then(Iter(Get(gallery, "imageList", List(<<>>))), LAMBDA images :
       GalleryImages(images))

DividerPart == Ok(<<Str(<<"\n","-","-","-","\n">>)>>)

CodeBlockPart(codeBlock) ==
  IF codeBlock.t # "dict" THEN Raised
  ELSE
    LET language == Get(codeBlock, "language", Str(<<>>))
        code == Get(codeBlock, "text", Str(<<>>))
    IN Ok(<<Str(<<BT,BT,BT>> \o Fmt(language) \o <<"\n">> \o Fmt(code) \o <<"\n",BT,BT,BT>>)>>)

EquationPart(equation) ==
  IF equation.t # "dict" THEN Raised
  ELSE Ok(<<Str(<<"$","$">> \o Fmt(Get(equation, "content", Str(<<>>))) \o <<"$","$">>)>>)

DocsLinkPart(docs_link) ==
  IF docs_link.t # "dict" THEN Raised
  ELSE
    With(Get(docs_link, "url", Str(<<>>)), LAMBDA url :
    Ok(<<Str(<<"[">> \o Fmt(Get(docs_link, "title", url)) \o <<"]","(">> \o Fmt(url) \o <<")">>)>>))

RECURSIVE rich_text_to_markdown(_)

\* the callout's nested content, rendered and given the quote marker
CalloutPart(callout) ==
  IF callout.t # "dict" THEN Raised
  ELSE Then(rich_text_to_markdown(Get(callout, "content", EmptyDict)),
            LAMBDA callout_text : Ok(<<Str(<<">"," ">> \o callout_text)>>))

\* what one element appends to line_parts: the if/elif chain
ElementParts(element, is_code_block) ==
  IF element.t \in {"none", "int", "bool"} THEN Raised
  ELSE
    With({i \in 1..Len(ElementKinds) : HasKind(element, ElementKinds[i])},
         LAMBDA present :
    IF present = {} THEN Ok(<<>>)
    ELSE IF element.t # "dict" THEN Raised
    ELSE
      With(ElementKinds[CHOOSE i \in present : \A j \in present : i <= j],
           LAMBDA kind :
      CASE kind = "textRun" -> TextRunPart(element.v[kind], is_code_block)
        [] kind = "mentionUser" -> MentionPart(element.v[kind])
        [] kind = "file" -> FilePart(element.v[kind])
        [] kind = "image" -> ImagePart(element.v[kind])
        [] kind = "gallery" -> GalleryPart(element.v[kind])
        [] kind = "divider" -> DividerPart
        [] kind = "codeBlock" -> CodeBlockPart(element.v[kind])
        [] kind = "callout" -> CalloutPart(element.v[kind])
        [] kind = "equation" -> EquationPart(element.v[kind])
        [] kind = "docs_link" -> DocsLinkPart(element.v[kind])))

RECURSIVE LineParts(_, _)
\* line_parts after the loop over the paragraph's elements
LineParts(elements, is_code_block) ==
  IF elements = <<>> THEN Ok(<<>>)
  ELSE Then(ElementParts(elements[1], is_code_block), LAMBDA first :
       Then(LineParts(Tail(elements), is_code_block), LAMBDA rest :
       Ok(first \o rest)))

\* WrapParagraph with the quote tested before the code block: C6 does not
\* hold of it
WrapParagraph_QuoteFirst(line, paragraph_style, is_code_block, is_quote) ==
  IF Truthy(is_quote) THEN Ok(<<">"," ">> \o line)
  ELSE IF Truthy(is_code_block)
  THEN Ok(<<BT,BT,BT>> \o Fmt(Get(paragraph_style, "codeLanguage", Str(<<>>)))
             \o <<"\n">> \o line \o <<"\n",BT,BT,BT>>)
  ELSE
    With(Get(paragraph_style, "headingLevel", Num(0)), LAMBDA heading_level :
    IF Truthy(heading_level)
    THEN Then(Times(<<"#">>, heading_level), LAMBDA hashes :
              Ok(hashes \o <<" ">> \o line))
    ELSE Ok(line))

\* code block, else quote, else heading
WrapParagraph(line, paragraph_style, is_code_block, is_quote) ==
  IF Truthy(is_code_block)
  THEN Ok(<<BT,BT,BT>> \o Fmt(Get(paragraph_style, "codeLanguage", Str(<<>>)))
             \o <<"\n">> \o line \o <<"\n",BT,BT,BT>>)
  ELSE IF Truthy(is_quote) THEN Ok(<<">"," ">> \o line)
  ELSE
    With(Get(paragraph_style, "headingLevel", Num(0)), LAMBDA heading_level :
    IF Truthy(heading_level)
    THEN Then(Times(<<"#">>, heading_level), LAMBDA hashes :
              Ok(hashes \o <<" ">> \o line))
    ELSE Ok(line))

\* the list marker, put before the wrapped line
ListPrefix(line, paragraph_style) ==
  With(Get(paragraph_style, "list", None), LAMBDA lst :
  IF ~Truthy(lst) THEN Ok(line)
  ELSE IF lst.t # "dict" THEN Raised
  ELSE
    Then(Times(<<" "," ">>, Get(lst, "indentLevel", Num(0))), LAMBDA indent :
    With(Get(lst, "type", None), LAMBDA list_type :
    IF list_type.t = "str" /\ list_type.v = <<"n","u","m","b","e","r">>
    THEN Ok(indent \o <<"1","."," ">> \o line)
    ELSE Ok(indent \o <<"-"," ">> \o line))))

\* ParagraphLine with the list marker put on before the paragraph's wrap: C7
\* does not hold of it
ParagraphLine_ListMarkerInside(paragraph) ==
  IF paragraph.t # "dict" THEN Raised
  ELSE
    With(Get(paragraph, "style", EmptyDict), LAMBDA paragraph_style :
    IF paragraph_style.t # "dict" THEN Raised
    ELSE
      With(Get(paragraph_style, "codeBlock", None), LAMBDA is_code_block :
      With(Get(paragraph_style, "quote", None), LAMBDA is_quote :
      Then(Iter(Get(paragraph, "elements", List(<<>>))), LAMBDA elements :
      Then(LineParts(elements, is_code_block), LAMBDA line_parts :
      Then(Join(<<>>, line_parts), LAMBDA line :
      Then(ListPrefix(line, paragraph_style), LAMBDA listed :
      WrapParagraph(listed, paragraph_style, is_code_block, is_quote))))))))

\* one pass of the loop over content: the paragraph's line
ParagraphLine(paragraph) ==
  IF paragraph.t # "dict" THEN Raised
  ELSE
    With(Get(paragraph, "style", EmptyDict), LAMBDA paragraph_style :
    IF paragraph_style.t # "dict" THEN Raised
    ELSE
      With(Get(paragraph_style, "codeBlock", None), LAMBDA is_code_block :
      With(Get(paragraph_style, "quote", None), LAMBDA is_quote :
      Then(Iter(Get(paragraph, "elements", List(<<>>))), LAMBDA elements :
      Then(LineParts(elements, is_code_block), LAMBDA line_parts :
      Then(Join(<<>>, line_parts), LAMBDA line :
      Then(WrapParagraph(line, paragraph_style, is_code_block, is_quote),
           LAMBDA wrapped :
      ListPrefix(wrapped, paragraph_style))))))))

RECURSIVE MarkdownLines(_)
\* markdown_lines after the loop over content
MarkdownLines(content) ==
  IF content = <<>> THEN Ok(<<>>)
  ELSE Then(ParagraphLine(content[1]), LAMBDA first :
       Then(MarkdownLines(Tail(content)), LAMBDA rest :
       Ok(<<Str(first)>> \o rest)))

\* JoinLines ending every line with a newline, the last one too: C9 does not
\* hold of it
JoinLines_NewlineAfterEach(markdown_lines) ==
  Join(<<>>, [i \in 1..Len(markdown_lines) |->
                IF markdown_lines[i].t = "str"
                THEN Str(markdown_lines[i].v \o <<"\n">>) ELSE markdown_lines[i]])

\* "\n".join(markdown_lines)
JoinLines(markdown_lines) == Join(<<"\n">>, markdown_lines)

\* a variant without the guard for a falsy input: C17 does not hold of it
rich_text_to_markdown_NoEmptyGuard(rich_text) ==
  IF rich_text.t # "dict" THEN Raised
  ELSE Then(Iter(Get(rich_text, "content", List(<<>>))), LAMBDA content :
       Then(MarkdownLines(content), LAMBDA markdown_lines :
       JoinLines(markdown_lines)))

rich_text_to_markdown(rich_text) ==
  IF ~Truthy(rich_text) THEN Ok(<<>>)
  ELSE IF rich_text.t # "dict" THEN Raised
  ELSE Then(Iter(Get(rich_text, "content", List(<<>>))), LAMBDA content :
       Then(MarkdownLines(content), LAMBDA markdown_lines :
       JoinLines(markdown_lines)))
----------------------------------------------------------------------------
(* KanbanBackend, src/boring/backends/kanban.py *)

\* "T" in created_at: a TypeError for a value that is no container
HasT(created_at) ==
  CASE created_at.t = "str" -> Ok(Contains(created_at.v, <<"T">>))
    [] created_at.t = "list" -> Ok(\E i \in 1..Len(created_at.v) :
                                     /\ created_at.v[i].t = "str"
                                     /\ created_at.v[i].v = <<"T">>)
    [] created_at.t = "dict" -> Ok("T" \in DOMAIN created_at.v)
    [] OTHER -> Raised

RECURSIVE BeforeT(_)
\* s.split("T")[0]
BeforeT(s) == IF s = <<>> \/ s[1] = "T" THEN <<>> ELSE <<s[1]>> \o BeforeT(Tail(s))

\* the date shown for a comment
DisplayTimestamp(created_at) ==
  Then(HasT(created_at), LAMBDA has :
  IF has
  THEN (IF created_at.t = "str" THEN Ok(BeforeT(created_at.v)) ELSE Raised)
  ELSE Ok(Fmt(created_at)))

\* the node's own line, with its newline
CommentLine(content, author, timestamp, level) ==
  Repeat(<<" "," ">>, level) \o <<"-"," ","*","*">> \o Fmt(author) \o <<"*","*"," ","[">> \o timestamp
    \o <<"]",":"," ">> \o Fmt(content) \o <<"\n">>

RECURSIVE _format_comment_node(_, _, _, _, _)
RECURSIVE FormatReplies(_, _)

\* FormatReplies rendering the replies at their parent's level: C10 does not
\* hold of it
FormatReplies_SameLevel(replies, level) ==
  IF replies = <<>> THEN Ok(<<>>)
  ELSE
    With(replies[1], LAMBDA reply :
    IF reply.t # "dict" THEN Raised
    ELSE
      With(Get(reply, "createdBy", EmptyDict), LAMBDA createdBy :
      IF createdBy.t # "dict" THEN Raised
      ELSE
        Then(_format_comment_node(Get(reply, "content", Str(<<>>)),
                                  Get(createdBy, "name", Str(<<"U","n","k","n","o","w","n">>)),
                                  Get(reply, "createdAt", Str(<<>>)),
                                  Get(reply, "replies", List(<<>>)),
                                  level), LAMBDA first :
        Then(FormatReplies(Tail(replies), level), LAMBDA rest :
        Ok(first \o rest)))))

\* the loop over replies, each rendered one level deeper
FormatReplies(replies, level) ==
  IF replies = <<>> THEN Ok(<<>>)
  ELSE
    With(replies[1], LAMBDA reply :
    IF reply.t # "dict" THEN Raised
    ELSE
      With(Get(reply, "createdBy", EmptyDict), LAMBDA createdBy :
      IF createdBy.t # "dict" THEN Raised
      ELSE
        Then(_format_comment_node(Get(reply, "content", Str(<<>>)),
                                  Get(createdBy, "name", Str(<<"U","n","k","n","o","w","n">>)),
                                  Get(reply, "createdAt", Str(<<>>)),
                                  Get(reply, "replies", List(<<>>)),
                                  level + 1), LAMBDA first :
        Then(FormatReplies(Tail(replies), level), LAMBDA rest :
        Ok(first \o rest)))))

_format_comment_node(content, author, created_at, replies, level) ==
  Then(DisplayTimestamp(created_at), LAMBDA timestamp :
  Then(Iter(replies), LAMBDA items :
  Then(FormatReplies(items, level), LAMBDA below :
  Ok(CommentLine(content, author, timestamp, level) \o below))))

\* a variant whose table is one place off: C15 does not hold of it
PriorityMap_ShiftedTable(p) ==
  CASE p.t \in {"int", "bool"} ->
         LET n == IF p.t = "bool" THEN (IF p.v THEN 1 ELSE 0) ELSE p.v
         IN CASE n = 0 -> <<"L","o","w">>
              [] n = 1 -> <<"M","e","d","i","u","m">>
              [] n = 2 -> <<"H","i","g","h">>
              [] n = 3 -> <<"U","r","g","e","n","t">>
              [] OTHER -> <<"N","o","n","e">>
    [] OTHER -> <<"N","o","n","e">>

PriorityMap(p) ==
  CASE p.t \in {"int", "bool"} ->
         LET n == IF p.t = "bool" THEN (IF p.v THEN 1 ELSE 0) ELSE p.v
         IN CASE n = 0 -> <<"N","o","n","e">>
              [] n = 1 -> <<"L","o","w">>
              [] n = 2 -> <<"M","e","d","i","u","m">>
              [] n = 3 -> <<"H","i","g","h">>
              [] n = 4 -> <<"U","r","g","e","n","t">>
              [] OTHER -> <<"N","o","n","e">>
    [] OTHER -> <<"N","o","n","e">>

RECURSIVE PriorityNames(_)
\* [p.get("name", "") for p in priorities if p.get("name")]
PriorityNames(priorities) ==
  IF priorities = <<>> THEN Ok(<<>>)
  ELSE
    With(priorities[1], LAMBDA p :
    IF p.t # "dict" THEN Raised
    ELSE Then(PriorityNames(Tail(priorities)), LAMBDA rest :
         IF Truthy(Get(p, "name", None))
         THEN Ok(<<Get(p, "name", Str(<<>>))>> \o rest)
         ELSE Ok(rest)))

_map_priority(card_detail) ==
  With(Get(card_detail, "priorities", List(<<>>)), LAMBDA priorities :
  IF ~Truthy(priorities)
  THEN With(Get(card_detail, "priority", None), LAMBDA p :
       IF p.t # "none" THEN Ok(Str(PriorityMap(p))) ELSE Ok(None))
  ELSE Then(Iter(priorities), LAMBDA items :
       Then(PriorityNames(items), LAMBDA names :
       Then(Join(<<","," ">>, names), LAMBDA joined : Ok(Str(joined))))))

RECURSIVE CommentActivities(_)
\* the loop over activities: the flat comment records and their renderings
CommentActivities(activities) ==
  IF activities = <<>> THEN Ok([comments_list |-> <<>>, markdown_parts |-> <<>>])
  ELSE
    With(activities[1], LAMBDA activity :
    IF activity.t # "dict" THEN Raised
    ELSE
      With(Get(activity, "name", None), LAMBDA name :
      IF ~(name.t = "str" /\ name.v = <<"k","a","n","b","a","n","_","c","a","r","d","s",".","c","o","m","m","e","n","t">>)
      THEN CommentActivities(Tail(activities))
      ELSE
        With(Get(activity, "data", EmptyDict), LAMBDA comment_data :
        With(Get(activity, "actor", EmptyDict), LAMBDA actor :
        With(Get(activity, "createdAt", Str(<<>>)), LAMBDA created_at :
        IF comment_data.t # "dict" \/ actor.t # "dict" THEN Raised
        ELSE
          With(Get(comment_data, "comment", Str(<<>>)), LAMBDA content :
          With(Get(actor, "name", Str(<<"U","n","k","n","o","w","n">>)), LAMBDA author :
          With(Get(comment_data, "replies", List(<<>>)), LAMBDA replies :
          Then(_format_comment_node(content, author, created_at, replies, 0),
               LAMBDA node :
          Then(CommentActivities(Tail(activities)), LAMBDA rest :
          Ok([comments_list |->
                <<Dict(("content" :> content) @@ ("author" :> author)
                       @@ ("created_at" :> created_at)
                       @@ ("replies" :> replies))>>
                \o rest.comments_list,
              markdown_parts |->
                <<Str(node)>> \o rest.markdown_parts])))))))))))

\* a variant that writes the heading of the comment block whether or not a
\* comment was found
_fetch_and_format_comments_AlwaysHeading(activities) ==
  IF ~activities.ok THEN Ok([comments |-> <<>>, markdown |-> <<>>])
  ELSE IF ~Truthy(activities.v) THEN Ok([comments |-> <<>>, markdown |-> <<>>])
  ELSE
    Then(Iter(activities.v), LAMBDA items :
    Then(CommentActivities(items), LAMBDA found :
    Ok([comments |-> found.comments_list,
        markdown |-> <<"\n","\n","-","-","-","\n","\n","#","#"," ","C","o","m","m","e","n","t","s","\n","\n">>
                       \o JoinStr(<<"\n">>, [i \in 1..Len(found.markdown_parts)
                                         |-> found.markdown_parts[i].v])])))

\* activities: what _post returned for kanban.cards.activities, or Raised
_fetch_and_format_comments(activities) ==
  IF ~activities.ok THEN Ok([comments |-> <<>>, markdown |-> <<>>])
  ELSE IF ~Truthy(activities.v) THEN Ok([comments |-> <<>>, markdown |-> <<>>])
  ELSE
    Then(Iter(activities.v), LAMBDA items :
    Then(CommentActivities(items), LAMBDA found :
    IF found.markdown_parts # <<>>
    THEN Ok([comments |-> found.comments_list,
             markdown |-> <<"\n","\n","-","-","-","\n","\n","#","#"," ","C","o","m","m","e","n","t","s","\n","\n">>
                            \o JoinStr(<<"\n">>, [i \in 1..Len(found.markdown_parts)
                                              |-> found.markdown_parts[i].v])])
    ELSE Ok([comments |-> found.comments_list, markdown |-> <<>>])))

Whitespace == {" ", "\n", "\t", "\r"}

RECURSIVE LStrip(_)
LStrip(s) == IF s # <<>> /\ s[1] \in Whitespace THEN LStrip(Tail(s)) ELSE s

RECURSIVE RStrip(_)
RStrip(s) == IF s # <<>> /\ s[Len(s)] \in Whitespace
             THEN RStrip(SubSeq(s, 1, Len(s) - 1)) ELSE s

\* s.strip()
Strip(s) == RStrip(LStrip(s))

\* ", ".join(card_labels) for the labels line, computed only when it is shown
LabelsText(card_labels) ==
  IF Truthy(card_labels)
  THEN Then(Iter(card_labels), LAMBDA items : Join(<<","," ">>, items))
  ELSE Ok(<<>>)

\* the metadata lines of a card, each shown only for a truthy value
KanbanMetaLines(priority_str, due_date, card_labels) ==
  Then(LabelsText(card_labels), LAMBDA labels :
  Ok((IF Truthy(priority_str)
      THEN <<"*","*","P","r","i","o","r","i","t","y",":","*","*"," ">> \o Fmt(priority_str) \o <<"\n">> ELSE <<>>)
     \o (IF Truthy(due_date)
         THEN <<"*","*","D","u","e"," ","D","a","t","e",":","*","*"," ">> \o Fmt(due_date) \o <<"\n">> ELSE <<>>)
     \o (IF Truthy(card_labels)
         THEN <<"*","*","L","a","b","e","l","s",":","*","*"," ">> \o labels \o <<"\n">> ELSE <<>>)))

\* card: what _post returned for kanban.cards.info, or Raised
KanbanGetTaskDetail(task_id, card, activities) ==
  IF ~card.ok THEN Raised
  ELSE IF card.v.t # "dict" THEN Raised
  ELSE
    With(card.v, LAMBDA card_detail :
    Then(_fetch_and_format_comments(activities), LAMBDA fetched :
    With(Get(card_detail, "title", Str(<<>>)), LAMBDA title :
    With(Get(card_detail, "description", Str(<<>>)), LAMBDA description :
    Then(_map_priority(card_detail), LAMBDA priority_str :
    With(Get(card_detail, "dueDate", None), LAMBDA due_date :
    With(Get(card_detail, "tags", List(<<>>)), LAMBDA card_labels :
    IF title.t \notin {"str", "list"} THEN Raised
    ELSE IF Truthy(description) /\ description.t # "str" THEN Raised
    ELSE
      Then(KanbanMetaLines(priority_str, due_date, card_labels), LAMBDA meta :
      Ok([id |-> task_id,
          title |-> title,
          description |->
            <<"#"," ">> \o Fmt(title) \o <<"\n">>
            \o Repeat(<<"=">>, Len(title.v) + 2) \o <<"\n","\n">>
            \o meta
            \o <<"\n">>
            \o (IF Truthy(description)
                THEN <<"#","#"," ","D","e","s","c","r","i","p","t","i","o","n","\n","\n">> \o Strip(description.v) \o <<"\n">>
                ELSE <<>>)
            \o (IF fetched.markdown # <<>>
                THEN <<"\n">> \o Strip(fetched.markdown) \o <<"\n">>
                ELSE <<>>),
          priority |-> priority_str,
          due_date |-> due_date,
          labels |-> card_labels,
          comments |-> fetched.comments])))))))))


\* lines 57-72 of _post: http is what came back for the request, no response at
\* all or a status and a body that is JSON or is not; the value returned is the
\* body's "data" when the body is a dict with one
_post(base_url, api_key, http) ==
  IF ~Truthy(base_url) THEN Raised
  ELSE IF ~Truthy(api_key) THEN Raised
  ELSE IF ~http.responded THEN Raised
  ELSE IF http.status \notin 200..299 THEN Raised
  ELSE IF ~http.json.ok THEN Raised
  ELSE IF http.json.v.t = "dict" /\ "data" \in DOMAIN http.json.v.v
  THEN Ok(http.json.v.v.data)
  ELSE Ok(http.json.v)

\* a variant that lets the exception of _post through: C19 does not hold of it
KanbanMoveTask_Propagates(base_url, api_key, http) ==
  IF _post(base_url, api_key, http).ok THEN Ok(Bool(TRUE)) ELSE Raised

\* lines 266-276: move_task
KanbanMoveTask(base_url, api_key, http) ==
  IF _post(base_url, api_key, http).ok THEN Ok(Bool(TRUE)) ELSE Ok(Bool(FALSE))
----------------------------------------------------------------------------
(* LarkBackend.get_task_detail, src/boring/backends/lark.py *)

IsDigit(c) == c \in {"0", "1", "2", "3", "4", "5", "6", "7", "8", "9"}

DigitValue(c) ==
  CASE c = "0" -> 0 [] c = "1" -> 1 [] c = "2" -> 2 [] c = "3" -> 3 [] c = "4" -> 4
    [] c = "5" -> 5 [] c = "6" -> 6 [] c = "7" -> 7 [] c = "8" -> 8 [] c = "9" -> 9

\* int(x), as a sign and decimal digits (an epoch in milliseconds exceeds the
\* checker's integers): a ValueError or TypeError for what is no integer literal
ParseInt(x) ==
  CASE x.t = "int" -> Ok([neg |-> x.v < 0, digits |-> Digits(IF x.v < 0 THEN -x.v ELSE x.v)])
    [] x.t = "bool" -> Ok([neg |-> FALSE, digits |-> IF x.v THEN <<"1">> ELSE <<"0">>])
    [] x.t = "str" ->
         With(Strip(x.v), LAMBDA s :
         With(IF s # <<>> /\ s[1] \in {"-", "+"} THEN Tail(s) ELSE s, LAMBDA body :
         IF body # <<>> /\ \A i \in 1..Len(body) : IsDigit(body[i])
         THEN Ok([neg |-> s[1] = "-", digits |-> body])
         ELSE Raised))
    [] OTHER -> Raised

MsPerDay == 86400000

\* days beyond which every date lies outside the years 1..9999
DayLimit == 4000000

RECURSIVE DivModDay(_, _, _)
\* the quotient and remainder of the digits by MsPerDay, by long division; the
\* quotient stops growing once past DayLimit
DivModDay(digits, q, r) ==
  IF digits = <<>> THEN [q |-> q, r |-> r]
  ELSE LET n == r * 10 + DigitValue(digits[1])
           q2 == q * 10 + n \div MsPerDay
       IN DivModDay(Tail(digits), IF q2 > DayLimit THEN DayLimit + 1 ELSE q2, n % MsPerDay)

\* n \div d rounded towards minus infinity
FloorDiv(n, d) == IF n >= 0 THEN n \div d ELSE -((-n + d - 1) \div d)

\* the proleptic Gregorian date of a day count from 1970-01-01, in steps: the
\* 400-year era and the day of it, the year of the era, the day of the year
\* counted from March, the month counted from March
CivilOfMonth(era, yoe, doy, mp) ==
  [year |-> yoe + era * 400 + (IF mp < 10 THEN 0 ELSE 1),
   month |-> IF mp < 10 THEN mp + 3 ELSE mp - 9,
   day |-> doy - (153 * mp + 2) \div 5 + 1]

CivilOfDay(era, yoe, doy) == CivilOfMonth(era, yoe, doy, (5 * doy + 2) \div 153)

CivilOfYear(era, doe, yoe) ==
  CivilOfDay(era, yoe, doe - (365 * yoe + yoe \div 4 - yoe \div 100))

CivilOfEra(era, doe) ==
  CivilOfYear(era, doe,
              (doe - doe \div 1460 + doe \div 36524 - doe \div 146096) \div 365)

CivilFromZ(z, era) == CivilOfEra(era, z - era * 146097)

CivilFromDays(days) == CivilFromZ(days + 719468, FloorDiv(days + 719468, 146097))

\* n in decimal, zero-padded to width w
Pad(n, w) == Repeat(<<"0">>, w - Len(Digits(n))) \o Digits(n)

\* strftime('%Y-%m-%d %H:%M'); a year outside 1..9999 is no datetime
StrfTime(date, of_day) ==
  IF date.year < 1 \/ date.year > 9999 THEN Raised
  ELSE Ok(Pad(date.year, 4) \o <<"-">> \o Pad(date.month, 2) \o <<"-">> \o Pad(date.day, 2)
          \o <<" ">> \o Pad(of_day \div 60, 2) \o <<":">> \o Pad(of_day % 60, 2))

\* the local date and time, from the UTC day and the local minute counted
\* from that day's start
LocalTime(utc_days, minutes) ==
  StrfTime(CivilFromDays(utc_days + FloorDiv(minutes, 1440)),
           minutes - FloorDiv(minutes, 1440) * 1440)

\* dm: the days and the milliseconds into the day of the magnitude
FromTimestamp(neg, dm, utc_offset) ==
  IF dm.q > DayLimit THEN Raised
  ELSE LocalTime(IF neg THEN (IF dm.r > 0 THEN -dm.q - 1 ELSE -dm.q) ELSE dm.q,
                 (IF neg /\ dm.r > 0 THEN MsPerDay - dm.r ELSE dm.r) \div 60000
                   + utc_offset)

\* datetime.fromtimestamp(ms / 1000).strftime('%Y-%m-%d %H:%M') where the local
\* time is utc_offset minutes ahead of UTC
FormatTimestamp(ms, utc_offset) ==
  FromTimestamp(ms.neg, DivModDay(ms.digits, 0, 0), utc_offset)

\* LarkDescription handing a text description to the renderer as well: the
\* amended C4 does not hold of it
LarkDescription_RenderText(description_data) ==
  CASE description_data.t \in {"dict", "str"} -> rich_text_to_markdown(description_data)
    [] OTHER -> Ok(<<>>)

\* lines 226-232: the description, rendered when structured and passed on when text
LarkDescription(description_data) ==
  CASE description_data.t = "dict" -> rich_text_to_markdown(description_data)
    [] description_data.t = "str" -> Ok(description_data.v)
    [] OTHER -> Ok(<<>>)

\* lines 235-255: the heading, the metadata lines and the description
LarkHeader(title, priority, due, description) ==
  IF Truthy(due) /\ due.t # "dict" THEN Raised
  ELSE Ok(<<"#"," ">> \o Fmt(title) \o <<"\n","\n">>
          \o (IF priority.t # "none"
              THEN <<"*","*","P","r","i","o","r","i","t","y",":","*","*"," ">> \o PriorityMap(priority) \o <<"\n","\n">> ELSE <<>>)
          \o (IF Truthy(due)
              THEN <<"*","*","D","u","e",":","*","*"," ">> \o Fmt(Get(due, "date", Str(<<>>))) \o <<"\n","\n">> ELSE <<>>)
          \o (IF description # <<>> THEN <<"-","-","-","\n","\n">> \o description ELSE <<>>))

RECURSIVE LarkLabels(_)
\* [m.get("name", "") for m in custom_fields]
LarkLabels(custom_fields) ==
  IF custom_fields = <<>> THEN Ok(<<>>)
  ELSE IF custom_fields[1].t # "dict" THEN Raised
  ELSE Then(LarkLabels(Tail(custom_fields)), LAMBDA rest :
       Ok(<<Get(custom_fields[1], "name", Str(<<>>))>> \o rest))

\* lines 273-277: the comment's time, formatted; Raised where int() or
\* fromtimestamp() raises and the inner except takes over
CommentTime(created_at, utc_offset) ==
  IF ParseInt(created_at).ok
  THEN FormatTimestamp(ParseInt(created_at).v, utc_offset)
  ELSE Raised

\* a variant that writes no heading when the conversion fails
CommentHeading_NoPlaceholder(created_at, stamp) ==
  IF ~Truthy(created_at) THEN <<>>
  ELSE IF stamp.ok THEN <<"#","#","#"," ">> \o stamp.v \o <<"\n","\n">>
  ELSE <<>>

\* lines 270-280: the heading of a comment that has a created_at
CommentHeading(created_at, stamp) ==
  IF ~Truthy(created_at) THEN <<>>
  ELSE IF stamp.ok THEN <<"#","#","#"," ">> \o stamp.v \o <<"\n","\n">>
  ELSE <<"#","#","#"," ","C","o","m","m","e","n","t","\n","\n">>

\* lines 270-286: what one comment appends to full_markdown
CommentText(comment, utc_offset) ==
  CommentHeading(Get(comment, "created_at", Str(<<>>)),
                 CommentTime(Get(comment, "created_at", Str(<<>>)), utc_offset))
    \o Fmt(Get(comment, "content", Str(<<>>))) \o <<"\n","\n">>

\* lines 283-286: the record appended to comments
CommentRecord(comment_content, created_at, stamp) ==
  Dict(("content" :> comment_content)
       @@ ("created_at" :>
             Str(IF Truthy(created_at) /\ stamp.ok THEN stamp.v ELSE <<>>)))

RECURSIVE LarkComments(_, _, _, _)
\* the loop over comments_data inside the try: when a comment raises, the loop
\* ends with the text appended so far and the except clause empties the list
LarkComments(comments_data, utc_offset, full_markdown, comments) ==
  IF comments_data = <<>> THEN [full_markdown |-> full_markdown, comments |-> comments]
  ELSE IF comments_data[1].t # "dict"
  THEN [full_markdown |-> full_markdown, comments |-> <<>>]
  ELSE LarkComments(Tail(comments_data), utc_offset,
         full_markdown \o CommentText(comments_data[1], utc_offset),
         comments \o <<CommentRecord(
           Get(comments_data[1], "content", Str(<<>>)),
           Get(comments_data[1], "created_at", Str(<<>>)),
           CommentTime(Get(comments_data[1], "created_at", Str(<<>>)), utc_offset))>>)

\* lines 262-289: the comments section; listed is what
\* client.list_task_comments returned, or Raised
LarkCommentSection(listed, utc_offset, full_markdown) ==
  IF ~listed.ok \/ ~Truthy(listed.v)
  THEN [full_markdown |-> full_markdown, comments |-> <<>>]
  ELSE IF ~Iter(listed.v).ok
  THEN [full_markdown |-> full_markdown \o <<"\n","\n","-","-","-","\n","\n","#","#"," ","C","o","m","m","e","n","t","s","\n","\n">>,
        comments |-> <<>>]
  ELSE LarkComments(Iter(listed.v).v, utc_offset,
                    full_markdown \o <<"\n","\n","-","-","-","\n","\n","#","#"," ","C","o","m","m","e","n","t","s","\n","\n">>, <<>>)

\* lines 291-299: the TaskItem returned
LarkTaskItem(task_id, title, priority, due, task_labels, done) ==
  Ok([id |-> task_id,
      title |-> title,
      description |-> done.full_markdown,
      priority |-> IF priority.t # "none" THEN Str(PriorityMap(priority)) ELSE None,
      due_date |-> IF Truthy(due) THEN Get(due, "date", Str(<<>>)) ELSE None,
      labels |-> List(task_labels),
      comments |-> done.comments])

\* lines 223-299, for the task record of the response
LarkTaskDetail(task_id, task_data, listed, utc_offset) ==
  LET title == Get(task_data, "summary", Str(<<"N","o"," ","t","i","t","l","e">>))
      priority == Get(task_data, "priority", None)
      due == Get(task_data, "due", None)
  IN Then(LarkDescription(Get(task_data, "description", None)), LAMBDA description :
     Then(LarkHeader(title, priority, due, description), LAMBDA header :
     Then(Iter(Get(task_data, "custom_fields", List(<<>>))), LAMBDA fields :
     Then(LarkLabels(fields), LAMBDA task_labels :
     LarkTaskItem(task_id, title, priority, due, task_labels,
                  LarkCommentSection(listed, utc_offset, header))))))

\* response: what client.get_task returned, or Raised
LarkGetTaskDetail(task_id, response, listed, utc_offset) ==
  IF ~response.ok THEN Raised
  ELSE IF response.v.t # "dict" THEN Raised
  ELSE IF Get(response.v, "data", EmptyDict).t # "dict" THEN Raised
  ELSE IF Get(Get(response.v, "data", EmptyDict), "task", EmptyDict).t # "dict"
  THEN Raised
  ELSE LarkTaskDetail(task_id,
                      Get(Get(response.v, "data", EmptyDict), "task", EmptyDict),
                      listed, utc_offset)

\* lines 301-314: move_task; client is what APIClient does, whether its
\* constructor returns and what solve_task returns, or Raised
LarkMoveTask(client) ==
  IF ~client.constructed THEN Ok(Bool(FALSE))
  ELSE IF ~client.solved.ok THEN Ok(Bool(FALSE))
  ELSE Ok(Bool(TRUE))
----------------------------------------------------------------------------
(* BackendFactory, src/boring/backends/__init__.py, and src/boring/config.py *)

\* an exception of the named class
RaisedAs(exc) == [ok |-> FALSE, exc |-> exc]

\* config.load_config: file is the configuration file, absent or with the
\* value yaml.safe_load gives for it, or the exception it raises
load_config(file) ==
  IF ~file.exists THEN Ok(EmptyDict)
  ELSE IF ~file.yaml.ok THEN file.yaml
  ELSE IF Truthy(file.yaml.v) THEN Ok(file.yaml.v)
  ELSE Ok(EmptyDict)

\* load_config().get(key) on what load_config gave
ValueOf(loaded, key) ==
  IF ~loaded.ok THEN loaded
  ELSE IF loaded.v.t # "dict" THEN RaisedAs("AttributeError")
  ELSE Ok(Get(loaded.v, key, None))

\* config.get_value
get_value(file, key) == ValueOf(load_config(file), key)

\* get_value("backend_type") or "lark"
BackendTypeOr(value) ==
  IF ~value.ok THEN value
  ELSE IF Truthy(value.v) THEN value
  ELSE Ok(Str(<<"l","a","r","k">>))

\* a variant without the default: C20 as amended does not hold of it
get_backend_type_NoDefault(file) == get_value(file, "backend_type")

\* config.get_backend_type
get_backend_type(file) == BackendTypeOr(get_value(file, "backend_type"))

\* LarkBackend(...) with the six settings read from the configuration
NewLarkBackend(loaded) ==
  IF ~loaded.ok THEN loaded
  ELSE IF loaded.v.t # "dict" THEN RaisedAs("AttributeError")
  ELSE Ok([class |-> "LarkBackend",
           server_url |-> Get(loaded.v, "server_url", None),
           jwt_token |-> Get(loaded.v, "jwt_token", None),
           lark_token |-> Get(loaded.v, "lark_token", None),
           tasklist_guid |-> Get(loaded.v, "tasklist_guid", None),
           section_guid |-> Get(loaded.v, "section_guid", None),
           solved_section_guid |-> Get(loaded.v, "solved_section_guid", None)])

\* KanbanBackend(...) with the five settings read from the configuration
NewKanbanBackend(loaded) ==
  IF ~loaded.ok THEN loaded
  ELSE IF loaded.v.t # "dict" THEN RaisedAs("AttributeError")
  ELSE Ok([class |-> "KanbanBackend",
           base_url |-> Get(loaded.v, "kanban_base_url", None),
           api_key |-> Get(loaded.v, "kanban_api_key", None),
           board_id |-> Get(loaded.v, "kanban_board_id", None),
           list_id |-> Get(loaded.v, "kanban_list_id", None),
           done_list_id |-> Get(loaded.v, "kanban_done_list_id", None)])

\* backend == text, for a backend type of any type
IsStr(backend, text) == backend.t = "str" /\ backend.v = text

\* lines 28-47: the dispatch on the backend type
BackendOfType(backend, file) ==
  IF ~backend.ok THEN backend
  ELSE IF IsStr(backend.v, <<"l","a","r","k">>) THEN NewLarkBackend(load_config(file))
  ELSE IF IsStr(backend.v, <<"k","a","n","b","a","n">>) THEN NewKanbanBackend(load_config(file))
  ELSE RaisedAs("ValueError")

\* BackendFactory.create_backend
create_backend(backend_type, file) ==
  BackendOfType(IF Truthy(backend_type) THEN Ok(backend_type)
                ELSE get_backend_type(file), file)

\* get_backend
get_backend(file) == create_backend(None, file)
----------------------------------------------------------------------------
(* The commands, src/boring/commands/, and config.is_configured *)

\* click.Abort
Aborted == RaisedAs("Abort")

\* config.py lines 167-178, for the mapping load_config gave
IsConfigured(config_data) ==
  IF ~Truthy(Get(config_data, "bugs_dir", None)) THEN FALSE
  ELSE IF IsStr(Get(config_data, "backend_type", Str(<<"l","a","r","k">>)), <<"l","a","r","k">>)
  THEN Truthy(Get(config_data, "server_url", None))
       /\ Truthy(Get(config_data, "jwt_token", None))
  ELSE IF IsStr(Get(config_data, "backend_type", Str(<<"l","a","r","k">>)), <<"k","a","n","b","a","n">>)
  THEN Truthy(Get(config_data, "kanban_base_url", None))
       /\ Truthy(Get(config_data, "kanban_api_key", None))
  ELSE FALSE

\* config.is_configured
is_configured(file) ==
  IF ~load_config(file).ok THEN load_config(file)
  ELSE IF load_config(file).v.t # "dict" THEN RaisedAs("AttributeError")
  ELSE Ok(IsConfigured(load_config(file).v))

RECURSIVE get_task_folders(_)
\* solve.py lines 15-25, for the entries os.listdir gives: the entries that
\* are directories, or links to one, and whose name is not blank
get_task_folders(entries) ==
  IF entries = <<>> THEN <<>>
  ELSE (IF entries[1].kind \in {"dir", "link"} /\ Strip(entries[1].name) # <<>>
        THEN <<entries[1]>> ELSE <<>>)
       \o get_task_folders(Tail(entries))

\* backend.move_task for the backend get_backend gave; remote is what the
\* service does with the request to move this task
MoveTaskOf(backend, remote) ==
  IF backend.class = "LarkBackend" THEN LarkMoveTask(remote.client)
  ELSE KanbanMoveTask(backend.base_url, backend.api_key, remote.http)

RECURSIVE WithoutEntry(_, _)
\* the directory after shutil.rmtree of the folder of that name
WithoutEntry(entries, name) ==
  IF entries = <<>> THEN <<>>
  ELSE (IF entries[1].name = name THEN <<>> ELSE <<entries[1]>>)
       \o WithoutEntry(Tail(entries), name)

\* lines 80-95, one folder: rmtree raises for a link, and the except clause
\* then reports the task as an error
SolveStep(folder, backend, keep, done) ==
  IF ~MoveTaskOf(backend, folder.remote).ok
  THEN [done EXCEPT !.lines = @ \o <<"ERROR">>]
  ELSE IF ~MoveTaskOf(backend, folder.remote).v.v
  THEN [done EXCEPT !.lines = @ \o <<"FAIL">>]
  ELSE IF keep
  THEN [done EXCEPT !.lines = @ \o <<"OK">>, !.success_count = @ + 1]
  ELSE IF folder.kind = "link"
  THEN [done EXCEPT !.lines = @ \o <<"OK", "ERROR">>]
  ELSE [done EXCEPT !.lines = @ \o <<"OK">>, !.success_count = @ + 1,
                    !.entries = WithoutEntry(@, folder.name)]

RECURSIVE SolveLoop(_, _, _, _)
\* lines 77-95: the loop over task_folders
SolveLoop(task_folders, backend, keep, done) ==
  IF task_folders = <<>> THEN done
  ELSE SolveLoop(Tail(task_folders), backend, keep,
                 SolveStep(task_folders[1], backend, keep, done))

\* lines 63-99, once the settings are known to be there
SolveFolders(keep, file, bugs) ==
  IF get_task_folders(IF bugs.exists THEN bugs.entries ELSE <<>>) = <<>>
  THEN Ok([entries |-> IF bugs.exists THEN bugs.entries ELSE <<>>,
           lines |-> <<>>, success_count |-> 0, found |-> 0])
  ELSE IF ~get_backend(file).ok THEN Aborted
  ELSE Ok(SolveLoop(get_task_folders(bugs.entries), get_backend(file).v, keep,
                    [entries |-> bugs.entries, lines |-> <<>>, success_count |-> 0,
                     found |-> Len(get_task_folders(bugs.entries))]))

\* lines 39-61: the section ids of the configured backend, both needed
SolveSections(keep, file, bugs) ==
  IF IsStr(get_backend_type(file).v, <<"l","a","r","k">>)
  THEN (IF Truthy(get_value(file, "section_guid").v)
           /\ Truthy(get_value(file, "solved_section_guid").v)
        THEN SolveFolders(keep, file, bugs) ELSE Aborted)
  ELSE IF IsStr(get_backend_type(file).v, <<"k","a","n","b","a","n">>)
  THEN (IF Truthy(get_value(file, "kanban_list_id").v)
           /\ Truthy(get_value(file, "kanban_done_list_id").v)
        THEN SolveFolders(keep, file, bugs) ELSE Aborted)
  ELSE Aborted

\* solve: file is the configuration file, bugs the directory bugs_dir names
solve(keep, file, bugs) ==
  IF ~is_configured(file).ok THEN is_configured(file)
  ELSE IF ~is_configured(file).v THEN Aborted
  ELSE SolveSections(keep, file, bugs)

----------------------------------------------------------------------------
(* sync, src/boring/commands/sync.py.  A path is the sequence of its parts
   below the root of the repository; the names of the model hold no
   separator, so that joining a name to a path appends one part.  What the
   command did is a record: the paths it listed, the files it wrote and the
   directories it made, each in order, and ok, which is FALSE once a
   statement raised. *)

\* s.endswith(suffix)
EndsWith(s, suffix) ==
  Len(s) >= Len(suffix) /\ SubSeq(s, Len(s) - Len(suffix) + 1, Len(s)) = suffix

\* c in s, for a character c
HasChar(s, c) == \E i \in 1..Len(s) : s[i] = c

RECURSIVE LastPart(_, _)
\* s.split(sep)[-1]
LastPart(s, sep) == IF HasChar(s, sep) THEN LastPart(Tail(s), sep) ELSE s

\* lines 31-32
WithoutGitSuffix(remote_url) ==
  IF EndsWith(remote_url, <<".","g","i","t">>) THEN SubSeq(remote_url, 1, Len(remote_url) - 4)
  ELSE remote_url

\* lines 35-39
RepoNameOf(remote_url) ==
  IF HasChar(remote_url, ":") /\ HasChar(remote_url, "@")
  THEN LastPart(LastPart(remote_url, ":"), "/")
  ELSE LastPart(remote_url, "/")

\* remote is what git remote get-url origin printed, or its failure
get_git_repo_name(remote) ==
  IF ~remote.ok THEN None ELSE Str(RepoNameOf(WithoutGitSuffix(Strip(remote.v))))

ClaudeDir == <<<<".","c","l","a","u","d","e">>>>

NothingDone == [ok |-> TRUE, listed |-> <<>>, files |-> <<>>, dirs |-> <<>>]

Failed(out) == [out EXCEPT !.ok = FALSE]

\* console.print of a path
Show(out, path) == [out EXCEPT !.listed = Append(@, path)]

\* path.write_text(data): a TypeError, before the file is opened, unless data is a string
WriteText(out, path, data) ==
  IF data.t # "str" THEN Failed(out) ELSE [out EXCEPT !.files = Append(@, path)]

\* path.mkdir(exist_ok=True)
Mkdir(out, path) ==
  IF \E i \in 1..Len(out.dirs) : out.dirs[i] = path THEN out
  ELSE [out EXCEPT !.dirs = Append(@, path)]

\* x[key]
Item(x, key) == IF x.t = "dict" /\ key \in DOMAIN x.v THEN Ok(x.v[key]) ELSE Raised

\* x[key] where the code needs a string: a part of a path
StrItem(x, key) ==
  IF Item(x, key).ok /\ Item(x, key).v.t = "str" THEN Item(x, key) ELSE Raised

\* x.get(key, default).get(inner)
GetGet(x, key, inner) ==
  IF Get(x, key, EmptyDict).t # "dict" THEN Raised
  ELSE Ok(Get(Get(x, key, EmptyDict), inner, None))

\* f"{item['name']}.md" below a directory of .claude
NamedPath(item, dir) == ClaudeDir \o <<dir, Fmt(Item(item, "name").v) \o <<".","m","d">>>>

SkillDir(skill) == ClaudeDir \o <<<<"s","k","i","l","l","s">>, skill.v["name"].v>>

(* _show_dry_run, lines 116-136 *)

ShowClaudeMd(config, out) ==
  IF Truthy(Get(config, "claude_md", None)) THEN Show(out, ClaudeDir \o <<<<"C","L","A","U","D","E",".","m","d">>>>)
  ELSE out

ShowSettings(config, out) ==
  IF ~out.ok THEN out
  ELSE IF Truthy(Get(config, "settings_json", None))
  THEN Show(out, ClaudeDir \o <<<<"s","e","t","t","i","n","g","s",".","l","o","c","a","l",".","j","s","o","n">>>>)
  ELSE out

ShowMcp(config, out) ==
  IF ~out.ok THEN out
  ELSE IF ~GetGet(config, "mcp_json", "mcpServers").ok THEN Failed(out)
  ELSE IF Truthy(GetGet(config, "mcp_json", "mcpServers").v) THEN Show(out, <<<<".","m","c","p",".","j","s","o","n">>>>)
  ELSE out

ShowNamedItem(item, dir, out) ==
  IF ~Item(item, "name").ok THEN Failed(out) ELSE Show(out, NamedPath(item, dir))

RECURSIVE ShowNamedItems(_, _, _)
ShowNamedItems(items, dir, out) ==
  IF items = <<>> \/ ~out.ok THEN out
  ELSE ShowNamedItems(Tail(items), dir, ShowNamedItem(items[1], dir, out))

\* for item in config.get(key, []), lines 127-128 and 135-136
ShowNamed(config, key, dir, out) ==
  IF ~out.ok THEN out
  ELSE IF ~Iter(Get(config, key, List(<<>>))).ok THEN Failed(out)
  ELSE ShowNamedItems(Iter(Get(config, key, List(<<>>))).v, dir, out)

ShowScript(script, skill, out) ==
  IF ~StrItem(script, "filename").ok THEN Failed(out)
  ELSE Show(out, SkillDir(skill) \o <<<<"s","c","r","i","p","t","s">>, script.v["filename"].v>>)

RECURSIVE ShowScripts(_, _, _)
ShowScripts(scripts, skill, out) ==
  IF scripts = <<>> \/ ~out.ok THEN out
  ELSE ShowScripts(Tail(scripts), skill, ShowScript(scripts[1], skill, out))

\* lines 131-133
ShowSkill(skill, out) ==
  IF ~StrItem(skill, "name").ok THEN Failed(out)
  ELSE IF ~Iter(Get(skill, "scripts", List(<<>>))).ok
  THEN Failed(Show(out, SkillDir(skill) \o <<<<"S","K","I","L","L",".","m","d">>>>))
  ELSE ShowScripts(Iter(Get(skill, "scripts", List(<<>>))).v, skill,
                   Show(out, SkillDir(skill) \o <<<<"S","K","I","L","L",".","m","d">>>>))

RECURSIVE ShowSkillItems(_, _)
ShowSkillItems(skills, out) ==
  IF skills = <<>> \/ ~out.ok THEN out
  ELSE ShowSkillItems(Tail(skills), ShowSkill(skills[1], out))

ShowSkills(config, out) ==
  IF ~out.ok THEN out
  ELSE IF ~Iter(Get(config, "skills", List(<<>>))).ok THEN Failed(out)
  ELSE ShowSkillItems(Iter(Get(config, "skills", List(<<>>))).v, out)

_show_dry_run(config, out) ==
  ShowNamed(config, "commands", <<"c","o","m","m","a","n","d","s">>,
    ShowSkills(config,
      ShowNamed(config, "agents", <<"a","g","e","n","t","s">>,
        ShowMcp(config, ShowSettings(config, ShowClaudeMd(config, out))))))

(* _sync_config, lines 139-199 *)

\* lines 142-145
MakeDirs(out) ==
  Mkdir(Mkdir(Mkdir(Mkdir(out, ClaudeDir), ClaudeDir \o <<<<"a","g","e","n","t","s">>>>),
              ClaudeDir \o <<<<"s","k","i","l","l","s">>>>), ClaudeDir \o <<<<"c","o","m","m","a","n","d","s">>>>)

WriteClaudeMd(config, out) ==
  IF Truthy(Get(config, "claude_md", None))
  THEN WriteText(out, ClaudeDir \o <<<<"C","L","A","U","D","E",".","m","d">>>>, Get(config, "claude_md", None))
  ELSE out

\* json.dumps gives a string for every value of a JSON document
WriteSettings(config, out) ==
  IF ~out.ok THEN out
  ELSE IF Truthy(Get(config, "settings_json", None))
  THEN WriteText(out, ClaudeDir \o <<<<"s","e","t","t","i","n","g","s",".","l","o","c","a","l",".","j","s","o","n">>>>, Str(<<"{","}">>))
  ELSE out

WriteMcp(config, out) ==
  IF ~out.ok THEN out
  ELSE IF ~GetGet(config, "mcp_json", "mcpServers").ok THEN Failed(out)
  ELSE IF Truthy(GetGet(config, "mcp_json", "mcpServers").v)
  THEN WriteText(out, <<<<".","m","c","p",".","j","s","o","n">>>>, Str(<<"{","}">>))
  ELSE out

WriteNamedItem(item, dir, out) ==
  IF ~Item(item, "name").ok \/ ~Item(item, "content").ok THEN Failed(out)
  ELSE WriteText(out, NamedPath(item, dir), Item(item, "content").v)

RECURSIVE WriteNamedItems(_, _, _)
WriteNamedItems(items, dir, out) ==
  IF items = <<>> \/ ~out.ok THEN out
  ELSE WriteNamedItems(Tail(items), dir, WriteNamedItem(items[1], dir, out))

\* lines 166-169 and 196-199
WriteNamed(config, key, dir, out) ==
  IF ~out.ok THEN out
  ELSE IF ~Iter(Get(config, key, List(<<>>))).ok THEN Failed(out)
  ELSE WriteNamedItems(Iter(Get(config, key, List(<<>>))).v, dir, out)

\* lines 186-193
WriteScript(script, skill, out) ==
  IF ~StrItem(script, "filename").ok \/ ~Item(script, "content").ok THEN Failed(out)
  ELSE WriteText(out, SkillDir(skill) \o <<<<"s","c","r","i","p","t","s">>, script.v["filename"].v>>,
                 Item(script, "content").v)

RECURSIVE WriteScripts(_, _, _)
WriteScripts(scripts, skill, out) ==
  IF scripts = <<>> \/ ~out.ok THEN out
  ELSE WriteScripts(Tail(scripts), skill, WriteScript(scripts[1], skill, out))

\* lines 181-193
WriteScriptsOf(skill, out) ==
  IF ~out.ok \/ ~Truthy(Get(skill, "scripts", None)) THEN out
  ELSE IF ~Iter(skill.v["scripts"]).ok THEN Failed(Mkdir(out, SkillDir(skill) \o <<<<"s","c","r","i","p","t","s">>>>))
  ELSE WriteScripts(Iter(skill.v["scripts"]).v, skill,
                    Mkdir(out, SkillDir(skill) \o <<<<"s","c","r","i","p","t","s">>>>))

\* lines 173-193
WriteSkill(skill, out) ==
  IF ~StrItem(skill, "name").ok THEN Failed(out)
  ELSE IF ~Item(skill, "skill_md").ok THEN Failed(Mkdir(out, SkillDir(skill)))
  ELSE WriteScriptsOf(skill, WriteText(Mkdir(out, SkillDir(skill)),
                                       SkillDir(skill) \o <<<<"S","K","I","L","L",".","m","d">>>>,
                                       Item(skill, "skill_md").v))

RECURSIVE WriteSkillItems(_, _)
WriteSkillItems(skills, out) ==
  IF skills = <<>> \/ ~out.ok THEN out
  ELSE WriteSkillItems(Tail(skills), WriteSkill(skills[1], out))

WriteSkills(config, out) ==
  IF ~out.ok THEN out
  ELSE IF ~Iter(Get(config, "skills", List(<<>>))).ok THEN Failed(out)
  ELSE WriteSkillItems(Iter(Get(config, "skills", List(<<>>))).v, out)

_sync_config(config, out) ==
  WriteNamed(config, "commands", <<"c","o","m","m","a","n","d","s">>,
    WriteSkills(config,
      WriteNamed(config, "agents", <<"a","g","e","n","t","s">>,
        WriteMcp(config, WriteSettings(config, WriteClaudeMd(config, MakeDirs(out)))))))

\* how the command ended, for the repository name it used, and what it did
Ended(exit, repo, out) ==
  Ok([exit |-> exit, repo |-> repo, listed |-> out.listed, files |-> out.files,
      dirs |-> out.dirs])

EndOf(repo, out) == Ended(IF out.ok THEN "return" ELSE "raise", repo, out)

\* lines 85-113, once the name of the repository is known
SyncRepo(repo, dry_run, git, server) ==
  IF ~git.root.ok \/ ~server.ok THEN Ended("Abort", repo, NothingDone)
  ELSE IF server.v.t # "dict"
  THEN EndOf(repo, Failed(IF dry_run THEN NothingDone ELSE MakeDirs(NothingDone)))
  ELSE IF dry_run THEN EndOf(repo, _show_dry_run(server.v, NothingDone))
  ELSE EndOf(repo, _sync_config(server.v, NothingDone))

\* git is what the two git commands give, server what sync_claude_config gives
sync(repo, dry_run, git, server) ==
  IF Truthy(repo) THEN SyncRepo(repo, dry_run, git, server)
  ELSE IF ~Truthy(get_git_repo_name(git.remote)) THEN Ended("Abort", None, NothingDone)
  ELSE SyncRepo(get_git_repo_name(git.remote), dry_run, git, server)

----------------------------------------------------------------------------
(* list_tasks of the two backends *)

Uppers == <<"A","B","C","D","E","F","G","H","I","J","K","L","M","N","O","P","Q","R","S","T","U","V","W","X","Y","Z">>
Lowers == <<"a","b","c","d","e","f","g","h","i","j","k","l","m","n","o","p","q","r","s","t","u","v","w","x","y","z">>

LowerChar(c) ==
  IF \E i \in 1..26 : Uppers[i] = c THEN Lowers[CHOOSE i \in 1..26 : Uppers[i] = c] ELSE c

\* s.lower(), for the characters of ASCII
Lower(s) == [i \in 1..Len(s) |-> LowerChar(s[i])]

\* set(lbl.lower() for lbl in labels) if labels else None: on is FALSE for None
LabelFilter(labels) ==
  IF ~Truthy(labels) THEN Ok([on |-> FALSE, set |-> {}])
  ELSE IF ~Iter(labels).ok THEN Raised
  ELSE IF \E i \in 1..Len(Iter(labels).v) : Iter(labels).v[i].t # "str" THEN Raised
  ELSE Ok([on |-> TRUE,
           set |-> {Lower(Iter(labels).v[i].v) : i \in 1..Len(Iter(labels).v)}])

RECURSIVE AnyLabelIn(_, _)
\* any(lbl.lower() in label_filter for lbl in labels), which stops at the first
\* label that is in the filter
AnyLabelIn(labels, set) ==
  IF labels = <<>> THEN Ok(FALSE)
  ELSE IF labels[1].t # "str" THEN Raised
  ELSE IF Lower(labels[1].v) \in set THEN Ok(TRUE)
  ELSE AnyLabelIn(Tail(labels), set)

\* label_filter and not any(...): the task is skipped
FilteredOut(task_detail, label_filter) ==
  IF ~label_filter.on THEN Ok(FALSE)
  ELSE IF ~Iter(task_detail.labels).ok THEN Raised
  ELSE IF ~AnyLabelIn(Iter(task_detail.labels).v, label_filter.set).ok THEN Raised
  ELSE Ok(~AnyLabelIn(Iter(task_detail.labels).v, label_filter.set).v)

\* what the service holds for the task of this id: the first record of it
RECURSIVE DetailOf(_, _)
DetailOf(details, id) ==
  IF details = <<>> THEN [found |-> FALSE]
  ELSE IF id.t = "str" /\ details[1].id = id.v THEN [found |-> TRUE, of |-> details[1]]
  ELSE DetailOf(Tail(details), id)

\* self.get_task_detail(task_guid) of the Lark backend
LarkDetailOf(details, task_guid, utc_offset) ==
  IF ~DetailOf(details, task_guid).found THEN Raised
  ELSE LarkGetTaskDetail(task_guid, DetailOf(details, task_guid).of.response,
                         DetailOf(details, task_guid).of.listed, utc_offset)

RECURSIVE LarkTaskItems(_, _, _, _, _)
\* lark.py lines 198-210
LarkTaskItems(items, label_filter, details, utc_offset, task_items) ==
  IF items = <<>> THEN Ok(task_items)
  ELSE IF items[1].t # "dict" THEN Raised
  ELSE IF ~LarkDetailOf(details, Get(items[1], "guid", None), utc_offset).ok THEN Raised
  ELSE IF ~FilteredOut(LarkDetailOf(details, Get(items[1], "guid", None), utc_offset).v,
                       label_filter).ok
  THEN Raised
  ELSE LarkTaskItems(Tail(items), label_filter, details, utc_offset,
         IF FilteredOut(LarkDetailOf(details, Get(items[1], "guid", None), utc_offset).v,
                        label_filter).v
         THEN task_items
         ELSE Append(task_items,
                     LarkDetailOf(details, Get(items[1], "guid", None), utc_offset).v))

\* lark.py lines 188-212; result is what list_tasks_in_section returned, or
\* Raised, and details what the service holds for each task
LarkListTasks(backend, labels, result, details, utc_offset) ==
  IF ~Truthy(backend.lark_token) THEN Raised
  ELSE IF ~result.ok THEN Raised
  ELSE IF ~LabelFilter(labels).ok THEN Raised
  ELSE IF result.v.t # "dict" THEN Raised
  ELSE IF ~GetGet(result.v, "data", "items").ok THEN Raised
  ELSE IF ~Iter(Get(Get(result.v, "data", EmptyDict), "items", List(<<>>))).ok THEN Raised
  ELSE LarkTaskItems(Iter(Get(Get(result.v, "data", EmptyDict), "items", List(<<>>))).v,
                     LabelFilter(labels).v, details, utc_offset, <<>>)

\* self.get_task_detail(card["id"]) of the Kanban backend, inside the try
KanbanDetailOf(details, card) ==
  IF ~Item(card, "id").ok THEN Raised
  ELSE IF ~DetailOf(details, card.v["id"]).found THEN Raised
  ELSE KanbanGetTaskDetail(card.v["id"], DetailOf(details, card.v["id"]).of.card,
                           DetailOf(details, card.v["id"]).of.activities)

\* card.get("listId") and card.get("listId") != section_id
InOtherList(card, section_id) ==
  Truthy(Get(card, "listId", None)) /\ ~IsStr(Get(card, "listId", None), section_id)

RECURSIVE KanbanTaskItems(_, _, _, _, _)
\* kanban.py lines 198-215
KanbanTaskItems(cards, section_id, label_filter, details, task_items) ==
  IF cards = <<>> THEN Ok(task_items)
  ELSE IF cards[1].t # "dict" THEN Raised
  ELSE IF InOtherList(cards[1], section_id) \/ ~KanbanDetailOf(details, cards[1]).ok
  THEN KanbanTaskItems(Tail(cards), section_id, label_filter, details, task_items)
  ELSE IF ~FilteredOut(KanbanDetailOf(details, cards[1]).v, label_filter).ok THEN Raised
  ELSE KanbanTaskItems(Tail(cards), section_id, label_filter, details,
         IF FilteredOut(KanbanDetailOf(details, cards[1]).v, label_filter).v
         THEN task_items
         ELSE Append(task_items, KanbanDetailOf(details, cards[1]).v))

RECURSIVE CardsOfList(_, _)
\* kanban.py lines 188-192: the cards of the first list of this id
CardsOfList(lists, section_id) ==
  IF lists = <<>> THEN Ok(List(<<>>))
  ELSE IF lists[1].t # "dict" THEN Raised
  ELSE IF IsStr(Get(lists[1], "id", None), section_id)
  THEN Ok(Get(lists[1], "cards", List(<<>>)))
  ELSE CardsOfList(Tail(lists), section_id)

\* kanban.py lines 188-196
CardsToVisit(board_info, section_id) ==
  IF ~Iter(Get(board_info, "lists", List(<<>>))).ok THEN Raised
  ELSE IF ~CardsOfList(Iter(Get(board_info, "lists", List(<<>>))).v, section_id).ok
  THEN Raised
  ELSE IF Truthy(CardsOfList(Iter(Get(board_info, "lists", List(<<>>))).v, section_id).v)
  THEN Iter(CardsOfList(Iter(Get(board_info, "lists", List(<<>>))).v, section_id).v)
  ELSE Iter(Get(board_info, "cards", List(<<>>)))

\* kanban.py lines 174-217; board_info is what _post returned for
\* kanban.boards.info, or Raised
KanbanListTasks(backend, section_id, labels, board_info, details) ==
  IF ~Truthy(backend.board_id) THEN Raised
  ELSE IF ~board_info.ok THEN Raised
  ELSE IF ~LabelFilter(labels).ok THEN Raised
  ELSE IF board_info.v.t # "dict" THEN Raised
  ELSE IF ~CardsToVisit(board_info.v, section_id).ok THEN Raised
  ELSE KanbanTaskItems(CardsToVisit(board_info.v, section_id).v, section_id,
                       LabelFilter(labels).v, details, <<>>)

----------------------------------------------------------------------------
(* download, src/boring/commands/download.py.  The file system is the set of
   its directories and the content of each of its files, by path. *)

RECURSIVE UpTo(_, _)
\* s up to the first sep, which s holds
UpTo(s, sep) == IF s[1] = sep THEN <<>> ELSE <<s[1]>> \o UpTo(Tail(s), sep)

RECURSIVE After(_, _)
\* s after the first sep, which s holds
After(s, sep) == IF s[1] = sep THEN Tail(s) ELSE After(Tail(s), sep)

RECURSIVE Split(_, _)
\* s.split(sep)
Split(s, sep) ==
  IF HasChar(s, sep) THEN <<UpTo(s, sep)>> \o Split(After(s, sep), sep) ELSE <<s>>

\* line 59: [lbl.strip() for lbl in labels.split(",")] if labels else None
LabelsOption(labels) ==
  IF ~Truthy(labels) THEN None
  ELSE List([i \in 1..Len(Split(labels.v, ",")) |-> Str(Strip(Split(labels.v, ",")[i]))])

\* the path and the directories above it
Prefixes(path) == {SubSeq(path, 1, n) : n \in 1..Len(path)}

\* makedirs(path, exist_ok=True) and mkdir(parents=True, exist_ok=True) raise
\* where a file is in the way
CanMakeDirs(fs, path) == Prefixes(path) \cap DOMAIN fs.files = {}

MakeDirsTo(fs, path) == [fs EXCEPT !.dirs = @ \cup Prefixes(path)]

\* a variant that keeps the content of a file that is already there
WriteFile_KeepsExisting(fs, path, content) == [fs EXCEPT !.files = @ @@ (path :> content)]

\* open(path, "w") and f.write(content)
WriteFile(fs, path, content) == [fs EXCEPT !.files = (path :> content) @@ @]

\* backend.list_tasks(section_id=section_id, labels=label_filter)
ListTasksOf(backend, section_id, label_filter, remote, utc_offset) ==
  IF backend.class = "LarkBackend"
  THEN LarkListTasks(backend, label_filter, remote.result, remote.details, utc_offset)
  ELSE KanbanListTasks(backend, section_id.v, label_filter, remote.board_info,
                       remote.kanban_details)

\* lines 96-107, for one task: the folder, the file, the count, and the title
\* that is printed
SaveTask(task_item, bugs_dir, done) ==
  IF task_item.id.t # "str" THEN [done EXCEPT !.ok = FALSE]
  ELSE IF ~CanMakeDirs(done.fs, <<bugs_dir, task_item.id.v>>) THEN [done EXCEPT !.ok = FALSE]
  ELSE [ok |-> task_item.title.t \in {"str", "list"},
        fs |-> WriteFile(MakeDirsTo(done.fs, <<bugs_dir, task_item.id.v>>),
                         <<bugs_dir, task_item.id.v, <<"d","e","s","c","r","i","p","t","i","o","n",".","m","d">>>>,
                         task_item.description),
        downloaded_count |-> done.downloaded_count + 1]

RECURSIVE SaveTasks(_, _, _)
SaveTasks(tasks, bugs_dir, done) ==
  IF tasks = <<>> \/ ~done.ok THEN done
  ELSE SaveTasks(Tail(tasks), bugs_dir, SaveTask(tasks[1], bugs_dir, done))

\* how the command ended, the number it reported and the file system it left
Downloaded(exit, downloaded_count, fs) ==
  Ok([exit |-> exit, downloaded_count |-> downloaded_count, fs |-> fs])

DownloadedOf(done) ==
  Downloaded(IF done.ok THEN "return" ELSE "raise", done.downloaded_count, done.fs)

\* lines 76-109
SaveAll(tasks, bugs_dir, fs) ==
  IF tasks = <<>> THEN Downloaded("return", 0, fs)
  ELSE IF ~CanMakeDirs(fs, <<bugs_dir>>) THEN Downloaded("raise", 0, fs)
  ELSE DownloadedOf(SaveTasks(tasks, bugs_dir,
         [ok |-> TRUE, fs |-> MakeDirsTo(fs, <<bugs_dir>>), downloaded_count |-> 0]))

\* lines 40-109, for the directory and the section chosen
DownloadFrom(bugs_dir, section_id, labels, file, remote, utc_offset, fs) ==
  IF ~Truthy(bugs_dir) \/ ~Truthy(section_id) THEN Downloaded("Abort", 0, fs)
  ELSE IF ~get_backend(file).ok THEN Downloaded("Abort", 0, fs)
  ELSE IF ~ListTasksOf(get_backend(file).v, section_id, LabelsOption(labels), remote,
                       utc_offset).ok
  THEN Downloaded("Abort", 0, fs)
  ELSE SaveAll(ListTasksOf(get_backend(file).v, section_id, LabelsOption(labels), remote,
                           utc_offset).v, bugs_dir.v, fs)

\* x or y
OrElse(x, y) == IF Truthy(x) THEN x ELSE y

\* lines 26-38: the directory and the section, by the type of the backend
DownloadConfigured(labels, section, bugs_dir_option, file, remote, utc_offset, fs) ==
  IF IsStr(get_backend_type(file).v, <<"l","a","r","k">>)
  THEN DownloadFrom(OrElse(bugs_dir_option, get_value(file, "bugs_dir").v),
                    OrElse(section, get_value(file, "section_guid").v),
                    labels, file, remote, utc_offset, fs)
  ELSE IF IsStr(get_backend_type(file).v, <<"k","a","n","b","a","n">>)
  THEN DownloadFrom(OrElse(bugs_dir_option, get_value(file, "bugs_dir").v),
                    OrElse(section, get_value(file, "kanban_list_id").v),
                    labels, file, remote, utc_offset, fs)
  ELSE Downloaded("Abort", 0, fs)

\* download: file is the configuration file, remote what the service holds,
\* fs the file system before
download(labels, section, bugs_dir_option, file, remote, utc_offset, fs) ==
  IF ~is_configured(file).ok THEN Downloaded("raise", 0, fs)
  ELSE IF ~is_configured(file).v THEN Downloaded("Abort", 0, fs)
  ELSE DownloadConfigured(labels, section, bugs_dir_option, file, remote, utc_offset, fs)

----------------------------------------------------------------------------
(* setup, src/boring/commands/setup.py *)

\* config.set_value: the file after load_config, config[key] = value and
\* save_config, for a file load_config reads as a mapping; the file is held
\* as the value yaml.safe_load gives for it
set_value(file, key, value) ==
  [exists |-> TRUE, yaml |-> Ok(Dict((key :> value) @@ load_config(file).v.v))]

\* how the command ended and the configuration file it left
SetupEnded(exit, file) == Ok([exit |-> exit, file |-> file])

\* click.prompt(text, default=default): the default when nothing is typed
Prompted(typed, default) == IF typed = <<>> THEN default ELSE Str(typed)

\* Prompt.ask(text, default=default): the default when nothing is typed, or
\* else what is typed, stripped
Asked(typed, default) == IF typed = <<>> THEN default ELSE Strip(typed)

RECURSIVE NumberOf(_, _)
\* the number the decimal digits write, after n
NumberOf(digits, n) ==
  IF digits = <<>> THEN n ELSE NumberOf(Tail(digits), n * 10 + DigitValue(digits[1]))

\* idx = int(selection) - 1, for a selection int() takes
IndexOf(selection) ==
  (IF ParseInt(Str(selection)).v.neg THEN 0 - NumberOf(ParseInt(Str(selection)).v.digits, 0)
   ELSE NumberOf(ParseInt(Str(selection)).v.digits, 0)) - 1

\* 0 <= idx < len(entries), and no ValueError
Selects(selection, n) ==
  ParseInt(Str(selection)).ok /\ 0 <= IndexOf(selection) /\ IndexOf(selection) < n

RECURSIVE Selected(_, _, _)
\* a selection loop over n entries: the place of the entry it accepts, counted
\* from 1, or 0 when the answers end before one is accepted
Selected(answers, default, n) ==
  IF answers = <<>> THEN 0
  ELSE IF Selects(Asked(answers[1], default), n)
  THEN IndexOf(Asked(answers[1], default)) + 1
  ELSE Selected(Tail(answers), default, n)

RECURSIVE Infos(_, _)
\* the BoardInfo or SectionInfo of each item, with id = item[key] and
\* name = item["name"]: raises where an item lacks one of them
Infos(items, key) ==
  IF items = <<>> THEN Ok(<<>>)
  ELSE IF items[1].t # "dict" THEN Raised
  ELSE IF key \notin DOMAIN items[1].v \/ "name" \notin DOMAIN items[1].v THEN Raised
  ELSE IF ~Infos(Tail(items), key).ok THEN Raised
  ELSE Ok(<<[id |-> items[1].v[key], name |-> items[1].v.name]>>
          \o Infos(Tail(items), key).v)

\* result.get("data", {}).get("items", []), for what the client gave
LarkItems(result) ==
  IF ~result.ok THEN Raised
  ELSE IF result.v.t # "dict" THEN Raised
  ELSE IF Get(result.v, "data", EmptyDict).t # "dict" THEN Raised
  ELSE Iter(Get(Get(result.v, "data", EmptyDict), "items", List(<<>>)))

\* LarkBackend.list_boards and list_sections: result is what the Lark client
\* gave for the listing
LarkInfos(lark_token, result) ==
  IF ~Truthy(lark_token) THEN Raised
  ELSE IF ~LarkItems(result).ok THEN Raised
  ELSE Infos(LarkItems(result).v, "guid")

\* KanbanBackend.list_boards: data is what _post gave
KanbanBoards(data) ==
  IF ~data.ok THEN Raised
  ELSE IF data.v.t # "list" THEN Ok(<<>>)
  ELSE Infos(data.v.v, "id")

\* KanbanBackend.list_sections: board_info is what get_board_info gave
KanbanSections(board_info) ==
  IF ~board_info.ok THEN Raised
  ELSE IF board_info.v.t # "dict" THEN Raised
  ELSE IF ~Iter(Get(board_info.v, "lists", List(<<>>))).ok THEN Raised
  ELSE Infos(Iter(Get(board_info.v, "lists", List(<<>>))).v, "id")

\* KanbanBackend.validate_config, its first component
validate_config(base_url, api_key, remote) ==
  IF ~Truthy(base_url) \/ ~Truthy(api_key) THEN FALSE
  ELSE KanbanBoards(remote.boards).ok

\* the loop that selects the solved or done section
SelectSolved(file, sections, answers, done_key) ==
  IF Selected(answers.solved, <<"2">>, Len(sections)) = 0 THEN SetupEnded("Abort", file)
  ELSE SetupEnded("return",
         set_value(file, done_key,
                   sections[Selected(answers.solved, <<"2">>, Len(sections))].id))

\* the loop that selects the section in progress
SelectInProgress(file, sections, answers, key, done_key) ==
  IF Selected(answers.section, <<"1">>, Len(sections)) = 0 THEN SetupEnded("Abort", file)
  ELSE SelectSolved(
         set_value(file, key, sections[Selected(answers.section, <<"1">>, Len(sections))].id),
         sections, answers, done_key)

\* from the listing of the sections on: sections is what list_sections gave
SelectSections(file, sections, answers, key, done_key) ==
  IF ~sections.ok THEN SetupEnded("Abort", file)
  ELSE IF Len(sections.v) = 0 THEN SetupEnded("Abort", file)
  ELSE SelectInProgress(file, sections.v, answers, key, done_key)

\* setup_lark, lines 69-110: the tasklists and the selection of one
LarkSelectBoard(file, lark_token, remote, answers) ==
  IF ~LarkInfos(lark_token, remote.tasklists).ok THEN SetupEnded("Abort", file)
  ELSE IF Len(LarkInfos(lark_token, remote.tasklists).v) = 0 THEN SetupEnded("Abort", file)
  ELSE IF Selected(answers.board, <<"1">>, Len(LarkInfos(lark_token, remote.tasklists).v)) = 0
  THEN SetupEnded("Abort", file)
  ELSE SelectSections(
         set_value(file, "tasklist_guid",
           LarkInfos(lark_token, remote.tasklists).v[
             Selected(answers.board, <<"1">>, Len(LarkInfos(lark_token, remote.tasklists).v))].id),
         LarkInfos(lark_token,
           remote.sections[
             Selected(answers.board, <<"1">>, Len(LarkInfos(lark_token, remote.tasklists).v))]),
         answers, "section_guid", "solved_section_guid")

\* setup_lark, lines 58-67: the Lark token
LarkFetchToken(file, remote, answers) ==
  IF ~remote.lark_token_data.ok THEN SetupEnded("Abort", file)
  ELSE IF remote.lark_token_data.v.t # "dict" THEN SetupEnded("Abort", file)
  ELSE LarkSelectBoard(
         set_value(file, "lark_token", Get(remote.lark_token_data.v, "access_token", None)),
         Get(remote.lark_token_data.v, "access_token", None), remote, answers)

\* setup_lark, lines 34-56: the login and the token pasted; an answer that is
\* not given is the prompt left with Ctrl-C
LarkLogin(file, typed, remote, answers) ==
  IF ~remote.login_url.ok THEN SetupEnded("Abort", file)
  ELSE IF ~typed.jwt_token.ok THEN SetupEnded("Abort", file)
  ELSE IF typed.jwt_token.v = <<>> THEN SetupEnded("Abort", file)
  ELSE LarkFetchToken(set_value(file, "jwt_token", Str(Strip(typed.jwt_token.v))),
                      remote, answers)

\* setup_lark, for the configuration file as it is when it is called
setup_lark(file, typed, remote, answers) ==
  LarkLogin(
    set_value(
      set_value(file, "server_url",
        Prompted(typed.server_url,
                 OrElse(get_value(file, "server_url").v, Str(<<"h","t","t","p","s",":","/","/","b","o","r","i","n","g",".","o","m","e","l","e","t",".","t","e","c","h","/","a","p","i">>)))),
      "bugs_dir",
      Prompted(typed.bugs_dir, OrElse(get_value(file, "bugs_dir").v, Str(<<"/","t","m","p","/","b","u","g","s">>)))),
    typed, remote, answers)

\* setup_kanban, lines 210-247: the boards and the selection of one
KanbanSelectBoard(file, remote, answers) ==
  IF ~KanbanBoards(remote.boards).ok THEN SetupEnded("Abort", file)
  ELSE IF Len(KanbanBoards(remote.boards).v) = 0 THEN SetupEnded("Abort", file)
  ELSE IF Selected(answers.board, <<"1">>, Len(KanbanBoards(remote.boards).v)) = 0
  THEN SetupEnded("Abort", file)
  ELSE SelectSections(
         set_value(file, "kanban_board_id",
           KanbanBoards(remote.boards).v[
             Selected(answers.board, <<"1">>, Len(KanbanBoards(remote.boards).v))].id),
         KanbanSections(
           remote.board_info[
             Selected(answers.board, <<"1">>, Len(KanbanBoards(remote.boards).v))]),
         answers, "kanban_list_id", "kanban_done_list_id")

\* setup_kanban, lines 199-208: the connection is validated
KanbanValidate(file, kanban_base_url, kanban_api_key, remote, answers) ==
  IF ~validate_config(kanban_base_url, kanban_api_key, remote)
  THEN SetupEnded("Abort", file)
  ELSE KanbanSelectBoard(file, remote, answers)

\* setup_kanban, lines 194-197: the key given at the prompt
KanbanKey(file, kanban_base_url, kanban_api_key, remote, answers) ==
  IF ~Truthy(kanban_api_key) THEN SetupEnded("Abort", file)
  ELSE KanbanValidate(set_value(file, "kanban_api_key", Str(Strip(kanban_api_key.v))),
                      kanban_base_url, Str(Strip(kanban_api_key.v)), remote, answers)

\* setup_kanban, lines 183-193: the base URL, and the prompt for the key
KanbanUrl(file, kanban_base_url, typed, remote, answers) ==
  IF ~typed.kanban_api_key.ok
  THEN SetupEnded("Abort", set_value(file, "kanban_base_url", kanban_base_url))
  ELSE KanbanKey(set_value(file, "kanban_base_url", kanban_base_url), kanban_base_url,
                 Prompted(typed.kanban_api_key.v,
                          OrElse(get_value(file, "kanban_api_key").v, Str(<<>>))),
                 remote, answers)

\* setup_kanban, for the configuration file as it is when it is called
setup_kanban(file, typed, remote, answers) ==
  KanbanUrl(
    set_value(
      set_value(file, "server_url",
        Prompted(typed.server_url,
                 OrElse(get_value(file, "server_url").v, Str(<<"h","t","t","p","s",":","/","/","b","o","r","i","n","g",".","o","m","e","l","e","t",".","t","e","c","h","/","a","p","i">>)))),
      "bugs_dir",
      Prompted(typed.bugs_dir, OrElse(get_value(file, "bugs_dir").v, Str(<<"/","t","m","p","/","b","u","g","s">>)))),
    Prompted(typed.kanban_base_url,
             OrElse(get_value(file, "kanban_base_url").v, Str(<<"h","t","t","p","s",":","/","/","l","o","c","a","l",".","o","u","t","l","i","n","e",".","d","e","v",":","3","0","0","0">>))),
    typed, remote, answers)

\* lines 312-313 and 316: "1" or "2", the default when nothing is typed
ChoiceOf(choice, current_backend) ==
  Asked(choice, IF IsStr(current_backend, <<"l","a","r","k">>) THEN <<"1">> ELSE <<"2">>)

\* setup: file is the configuration file before, choice, typed and answers
\* what is typed at the prompts, remote what the services give
setup(file, choice, typed, remote, answers) ==
  IF ~get_backend_type(file).ok THEN SetupEnded("raise", file)
  ELSE IF ChoiceOf(choice, get_backend_type(file).v) = <<"1">>
  THEN setup_lark(set_value(file, "backend_type", Str(<<"l","a","r","k">>)), typed, remote, answers)
  ELSE setup_kanban(set_value(file, "backend_type", Str(<<"k","a","n","b","a","n">>)), typed, remote, answers)
----------------------------------------------------------------------------
(* The payloads the operations are applied to *)

MaxParas == 2
MaxElems == 2
MaxHeading == 2
MaxIndent == 2
MaxDepth == 2
MaxReplies == 2
MaxLevel == 2
MaxComments == 2
MaxImages == 3
MaxEntries == 2

\* tasks in a section
MaxTasks == 2

SeqsUpTo(S, n) == UNION {[1..k -> S] : k \in 0..n}

\* a dict holding key only when present
Field(key, present, value) == IF present THEN key :> value ELSE <<>>

TextRun(text, style) == Dict("textRun" :> Dict(("text" :> Str(text)) @@ style))
PlainRun(text) == Dict("textRun" :> Dict("text" :> Str(text)))
Paragraph(style, elements) ==
  Dict(Field("style", style # <<>>, Dict(style)) @@ ("elements" :> List(elements)))
Document(content) == Dict("content" :> List(content))

InlineStyles ==
  {Dict(Field("bold", b, Bool(TRUE)) @@ Field("italic", i, Bool(TRUE))
        @@ Field("strikethrough", s, Bool(TRUE)) @@ Field("codeInline", c, Bool(TRUE))
        @@ Field("link", l # "absent",
                 IF l = "url" THEN Dict("url" :> Str(<<"u">>)) ELSE EmptyDict)) :
     b \in BOOLEAN, i \in BOOLEAN, s \in BOOLEAN, c \in BOOLEAN,
     l \in {"absent", "empty", "url"}}

\* one text run under every combination of inline styles, in and out of a code block
StyledDocs ==
  {Document(<<Paragraph(Field("codeBlock", cb, Bool(TRUE)),
                        <<TextRun(text, "style" :> style)>>)>>) :
     text \in {<<"x">>, <<"h","i">>}, style \in InlineStyles, cb \in BOOLEAN}

ListStyles ==
  {<<>>} \cup
  {"list" :> Dict(Field("type", ty # "absent", Str(IF ty = "number" THEN <<"n","u","m","b","e","r">> ELSE <<"b","u","l","l","e","t">>))
                  @@ Field("indentLevel", n >= 0, Num(n))) :
     ty \in {"absent", "number", "bullet"}, n \in -1..MaxIndent}

ParagraphStyles ==
  {Field("codeBlock", cb, Bool(TRUE)) @@ Field("quote", q, Bool(TRUE))
   @@ Field("headingLevel", h >= 0, Num(h)) @@ Field("codeLanguage", lang, Str(<<"p","y">>))
   @@ lst :
     cb \in BOOLEAN, q \in BOOLEAN, h \in -1..MaxHeading, lang \in BOOLEAN,
     lst \in ListStyles}

\* one plain text run under every paragraph style
ParagraphStyleDocs ==
  {Document(<<Paragraph(style, <<PlainRun(<<"x">>)>>)>>) : style \in ParagraphStyles}

ElementSamples ==
  { PlainRun(<<"a">>),
    TextRun(<<"b">>, "style" :> Dict("bold" :> Bool(TRUE))),
    Dict("mentionUser" :> Dict("userId" :> Str(<<"u","1">>))),
    Dict("file" :> Dict("fileToken" :> Str(<<"f","1">>))),
    Dict("file" :> Dict(("fileToken" :> Str(<<"f","1">>)) @@ ("name" :> Str(<<"a",".","t","x","t">>)))),
    Dict("image" :> Dict("fileToken" :> Str(<<"i","1">>))),
    Dict("gallery" :> Dict("imageList" :>
           List(<<Dict("fileToken" :> Str(<<"a">>)), Dict("fileToken" :> Str(<<"b">>))>>))),
    Dict("divider" :> EmptyDict),
    Dict("codeBlock" :> Dict(("language" :> Str(<<"p","y">>)) @@ ("text" :> Str(<<"x","=","1">>)))),
    Dict("equation" :> Dict("content" :> Str(<<"e">>))),
    Dict("docs_link" :> Dict("url" :> Str(<<"u">>))),
    Dict("sheet" :> EmptyDict),
    Dict(("image" :> Dict("fileToken" :> Str(<<"i","1">>))) @@ ("textRun" :> Dict("text" :> Str(<<"t">>)))) }

\* one paragraph of up to MaxElems elements
ElementDocs ==
  {Document(<<Paragraph(<<>>, elements)>>) : elements \in SeqsUpTo(ElementSamples, MaxElems)}

GalleryImageSamples ==
  { Dict("fileToken" :> Str(<<"a">>)), Dict("fileToken" :> Str(<<"b">>)), EmptyDict }

Gallery(images) == Dict("gallery" :> Dict("imageList" :> List(images)))

\* a gallery of up to MaxImages images, alone on its line or between two runs
GalleryDocs ==
  UNION {{Document(<<Paragraph(<<>>, <<Gallery(images)>>)>>),
          Document(<<Paragraph(<<>>, <<PlainRun(<<"x">>), Gallery(images), PlainRun(<<"y">>)>>)>>)} :
           images \in SeqsUpTo(GalleryImageSamples, MaxImages)}

ParagraphSamples ==
  { Paragraph(<<>>, <<PlainRun(<<"a">>)>>),
    Paragraph(<<>>, <<>>),
    Dict("style" :> EmptyDict),
    Paragraph("headingLevel" :> Num(1), <<PlainRun(<<"b">>)>>),
    Paragraph(<<>>, <<PlainRun(<<"c">>), Dict("mentionUser" :> Dict("userId" :> Str(<<"u","1">>)))>>) }

\* up to MaxParas paragraphs
ParagraphDocs == {Document(content) : content \in SeqsUpTo(ParagraphSamples, MaxParas)}

RECURSIVE CalloutContents(_)
\* what a callout holds: paragraphs, or a callout nested depth levels deeper
CalloutContents(depth) ==
  IF depth = 0 THEN ParagraphDocs \cup {EmptyDict}
  ELSE {Document(<<Paragraph(<<>>, <<Dict("callout" :> Dict("content" :> inner))>>)>>) :
          inner \in CalloutContents(depth - 1)}

Callout(inner) == Dict("callout" :> Dict("content" :> inner))

CalloutDocs ==
  UNION {{Document(<<Paragraph(<<>>, <<Callout(inner)>>)>>) : inner \in CalloutContents(d)} :
           d \in 0..(MaxDepth - 1)}
  \cup {Document(<<Paragraph(<<>>, <<Dict("callout" :> EmptyDict)>>)>>)}

\* documents with a field null or a payload without its fields
NullFieldDocs ==
  << Dict("content" :> None),
    Document(<<None>>),
    Document(<<Dict("style" :> None)>>),
    Document(<<Dict(("style" :> EmptyDict) @@ ("elements" :> None))>>),
    Document(<<Paragraph(<<>>, <<None>>)>>),
    Document(<<Paragraph(<<>>, <<Dict("textRun" :> None)>>)>>),
    Document(<<Paragraph(<<>>, <<Dict("textRun" :> EmptyDict)>>)>>),
    Document(<<Paragraph(<<>>, <<Dict("textRun" :> Dict("text" :> None))>>)>>),
    Document(<<Paragraph(<<>>, <<Dict("textRun" :> Dict(("text" :> None)
                 @@ ("style" :> Dict("bold" :> Bool(TRUE)))))>>)>>),
    Document(<<Paragraph(<<>>, <<Dict("textRun" :> Dict(("text" :> Str(<<"x">>))
                 @@ ("style" :> None)))>>)>>),
    Document(<<Paragraph("codeBlock" :> Bool(TRUE),
                 <<Dict("textRun" :> Dict(("text" :> Str(<<"x">>)) @@ ("style" :> None)))>>)>>),
    Document(<<Paragraph(<<>>, <<TextRun(<<"x">>, "style" :> Dict("link" :> None))>>)>>),
    Document(<<Paragraph(<<>>, <<Dict("mentionUser" :> None)>>)>>),
    Document(<<Paragraph(<<>>, <<Dict("mentionUser" :> EmptyDict)>>)>>),
    Document(<<Paragraph(<<>>, <<Dict("gallery" :> Dict("imageList" :> None))>>)>>),
    Document(<<Paragraph(<<>>, <<Dict("callout" :> None)>>)>>),
    Document(<<Paragraph(<<>>, <<Dict("callout" :> Dict("content" :> None))>>)>>),
    Document(<<Paragraph("headingLevel" :> None, <<PlainRun(<<"x">>)>>)>>),
    Document(<<Paragraph("list" :> None, <<PlainRun(<<"x">>)>>)>>),
    Document(<<Paragraph("list" :> Dict("type" :> None), <<PlainRun(<<"x">>)>>)>>),
    Document(<<Paragraph("list" :> Dict(("type" :> Str(<<"n","u","m","b","e","r">>)) @@ ("indentLevel" :> None)),
                         <<PlainRun(<<"x">>)>>)>>) >>

\* documents with a field of another type than the schema's
WrongTypeDocs ==
  << Document(<<Paragraph(<<>>, <<Str(<<"t","e","x","t","R","u","n">>)>>)>>),
    Document(<<Paragraph(<<>>, <<Str(<<"p","l","a","i","n">>)>>)>>),
    Document(<<Paragraph("headingLevel" :> Str(<<"2">>), <<PlainRun(<<"x">>)>>)>>),
    Document(<<Paragraph("headingLevel" :> Bool(TRUE), <<PlainRun(<<"x">>)>>)>>),
    Dict("content" :> Str(<<"a","b">>)) >>

\* what is no structured document
ScalarInputs ==
  << None, EmptyDict, Dict("content" :> List(<<>>)), Dict("title" :> Str(<<"t">>)),
     Str(<<>>), Str(<<"x">>), Str(<<"t","w","o","\n","l","i","n","e","s">>), List(<<>>), Num(0) >>

RECURSIVE ReplyLists(_)
\* reply lists nested up to depth levels: up to MaxReplies replies, one of which
\* carries the replies below it
ReplyLists(depth) ==
  IF depth = 0 THEN {<<>>}
  ELSE {<<>>} \cup
       UNION {{[i \in 1..w |->
                  Dict(("content" :> Str(<<"r">> \o Digits(i)))
                       @@ Field("createdBy", i # 2, Dict("name" :> Str(<<"B","o","b">>)))
                       @@ Field("createdAt", i # 3,
                                Str(IF i = 1 THEN <<"2","0","2","4","-","0","1","-","0","3","T","0","9",":","3","0">> ELSE <<"2","0","2","4","-","0","1","-","0","4">>))
                       @@ Field("replies", i = j \/ i = 1,
                                List(IF i = j THEN below ELSE <<>>)))] :
                 j \in 1..w, below \in ReplyLists(depth - 1)} :
                w \in 1..MaxReplies}

CommentNodeCalls ==
  {[fn |-> "_format_comment_node", content |-> Str(<<"f","i","x","e","d"," ","i","t">>), author |-> Str(<<"A","l","i","c","e">>),
    created_at |-> Str(created_at), replies |-> List(replies), level |-> level] :
     created_at \in {<<"2","0","2","4","-","0","1","-","0","2">>, <<"2","0","2","4","-","0","1","-","0","2","T","0","3",":","0","4",":","0","5","Z">>, <<"T","u","e"," ","2","0","2","4","-","0","1","-","0","2">>, <<>>},
     replies \in ReplyLists(MaxDepth), level \in 0..MaxLevel}

\* comment records with a field null or of the wrong type
MalformedCommentNodes ==
  << [content |-> None, author |-> None, created_at |-> Str(<<"2","0","2","4">>),
      replies |-> List(<<>>)],
     [content |-> Str(<<"c">>), author |-> Str(<<"A">>), created_at |-> None,
      replies |-> List(<<>>)],
     [content |-> Str(<<"c">>), author |-> Str(<<"A">>), created_at |-> Str(<<"2","0","2","4">>),
      replies |-> None],
     [content |-> Str(<<"c">>), author |-> Str(<<"A">>), created_at |-> Str(<<"2","0","2","4">>),
      replies |-> List(<<None>>)],
     [content |-> Str(<<"c">>), author |-> Str(<<"A">>), created_at |-> Str(<<"2","0","2","4">>),
      replies |-> List(<<EmptyDict>>)],
     [content |-> Str(<<"c">>), author |-> Str(<<"A">>), created_at |-> Str(<<"2","0","2","4">>),
      replies |-> List(<<Dict("createdBy" :> None)>>)],
     [content |-> Str(<<"c">>), author |-> Str(<<"A">>), created_at |-> Str(<<"2","0","2","4">>),
      replies |-> List(<<Dict("createdAt" :> None)>>)],
     [content |-> Str(<<"c">>), author |-> Str(<<"A">>), created_at |-> Str(<<"2","0","2","4">>),
      replies |-> List(<<Dict("replies" :> None)>>)],
     [content |-> Str(<<"c">>), author |-> Str(<<"A">>), created_at |-> Str(<<"2","0","2","4">>),
      replies |-> List(<<Dict(("content" :> None) @@ ("createdBy" :> EmptyDict))>>)] >>

CommentNodeCall(c, level) ==
  [fn |-> "_format_comment_node", content |-> c.content, author |-> c.author,
   created_at |-> c.created_at, replies |-> c.replies, level |-> level]

TaskIds == {"t1"}

\* the local zone's offset from UTC, in minutes
UtcOffsets == {0, 420, -300}

LarkDescriptions ==
  { <<>>,
    "description" :> Str(<<"b","o","d","y">>),
    "description" :> Document(<<Paragraph("headingLevel" :> Num(2), <<PlainRun(<<"S","t","e","p","s">>)>>),
                                Paragraph(<<>>, <<PlainRun(<<"r","u","n"," ","i","t">>)>>)>>) }

LarkTaskData ==
  {Dict(Field("summary", title, Str(<<"F","i","x"," ","l","o","g","i","n">>)) @@ description
        @@ Field("priority", priority >= 0, Num(priority))
        @@ Field("due", due, Dict("date" :> Str(<<"2","0","2","4","-","0","5","-","0","1">>)))
        @@ Field("custom_fields", labels >= 0,
                 List([i \in 1..labels |->
                         Dict("name" :> Str(IF i = 1 THEN <<"b","u","g">> ELSE <<"u","i">>))]))) :
     title \in BOOLEAN, description \in LarkDescriptions, priority \in {-1, 0, 1, 2, 3, 4, 7},
     due \in BOOLEAN, labels \in {-1, 1, 2}}

LarkCommentSamples ==
  { Dict("content" :> Str(<<"f","i","r","s","t">>)),
    Dict(("content" :> Str(<<"s","e","c","o","n","d">>)) @@ ("created_at" :> Str(<<"1","7","0","4","1","6","4","6","4","0","0","0","0">>))),
    Dict(("content" :> Str(<<"t","h","i","r","d">>)) @@ ("created_at" :> Str(<<"s","o","o","n">>))) }

LarkCommentLists ==
  {Raised, Ok(None), Ok(List(<<None>>)),
   Ok(List(<<Dict("content" :> Str(<<"f","i","r","s","t">>)), None>>))}
  \cup {Ok(List(comments)) : comments \in SeqsUpTo(LarkCommentSamples, MaxComments)}

LarkDetailCalls ==
  {[fn |-> "LarkBackend.get_task_detail", task_id |-> id,
    response |-> Ok(Dict("data" :> Dict("task" :> task_data))),
    listed |-> listed, utc_offset |-> utc_offset] :
     id \in TaskIds, task_data \in LarkTaskData, listed \in LarkCommentLists,
     utc_offset \in UtcOffsets}

\* responses that fail, lack the task or carry nulls
LarkOddResponses ==
  << Raised, Ok(EmptyDict), Ok(Dict("data" :> None)),
     Ok(Dict("data" :> Dict("task" :> Dict("description" :> None)))),
     Ok(Dict("data" :> Dict("task" :> Dict("description" :>
           Document(<<Dict("style" :> None)>>))))),
     Ok(Dict("data" :> Dict("task" :> Dict("custom_fields" :> None)))),
     Ok(Dict("data" :> Dict("task" :> Dict("due" :> Str(<<"2","0","2","4">>))))) >>

LarkDetailCall(id, response, listed, utc_offset) ==
  [fn |-> "LarkBackend.get_task_detail", task_id |-> id, response |-> response,
   listed |-> listed, utc_offset |-> utc_offset]

KanbanPriorities ==
  { <<>>,
    "priority" :> Num(0),
    "priority" :> Num(1),
    "priority" :> Num(2),
    "priority" :> Num(3),
    "priority" :> Num(4),
    "priority" :> Num(9),
    ("priority" :> Num(2)) @@ ("priorities" :> List(<<Dict("name" :> Str(<<"H","i","g","h">>))>>)),
    "priorities" :> List(<<Dict("name" :> Str(<<"H","i","g","h">>))>>),
    "priorities" :> List(<<Dict("name" :> Str(<<"H","i","g","h">>)), Dict("name" :> Str(<<"U","r","g","e","n","t">>))>>),
    "priorities" :> List(<<EmptyDict>>) }

KanbanCards ==
  {Dict(Field("title", title, Str(<<"F","i","x">>))
        @@ Field("description", description # "absent",
                 Str(IF description = "plain" THEN <<"b","o","d","y">> ELSE <<" ","b","o","d","y","\n">>))
        @@ priority
        @@ Field("dueDate", due, Str(<<"2","0","2","4","-","0","5","-","0","1">>))
        @@ Field("tags", labels >= 0,
                 List([i \in 1..labels |-> Str(IF i = 1 THEN <<"b","u","g">> ELSE <<"u","i">>)]))) :
     title \in BOOLEAN, description \in {"absent", "plain", "padded"},
     priority \in KanbanPriorities, due \in BOOLEAN, labels \in {-1, 0, 2}}

ActivitySamples ==
  { Dict("name" :> Str(<<"k","a","n","b","a","n","_","c","a","r","d","s",".","m","o","v","e">>)),
    Dict(("name" :> Str(<<"k","a","n","b","a","n","_","c","a","r","d","s",".","c","o","m","m","e","n","t">>))
         @@ ("data" :> Dict("comment" :> Str(<<"f","i","x","e","d"," ","i","t">>)))
         @@ ("actor" :> Dict("name" :> Str(<<"A","l","i","c","e">>)))
         @@ ("createdAt" :> Str(<<"2","0","2","4","-","0","1","-","0","2","T","0","3",":","0","4",":","0","5","Z">>))),
    Dict(("name" :> Str(<<"k","a","n","b","a","n","_","c","a","r","d","s",".","c","o","m","m","e","n","t">>))
         @@ ("data" :> Dict(("comment" :> Str(<<"w","h","y">>))
               @@ ("replies" :> List(<<Dict(("content" :> Str(<<"t","h","a","n","k","s">>))
                                         @@ ("createdBy" :> Dict("name" :> Str(<<"B","o","b">>))))>>))))
         @@ ("createdAt" :> Str(<<"2","0","2","4","-","0","1","-","0","5">>))) }

KanbanActivityLists ==
  {Raised, Ok(None)}
  \cup {Ok(List(activities)) : activities \in SeqsUpTo(ActivitySamples, MaxComments)}

KanbanDetailCalls ==
  {[fn |-> "KanbanBackend.get_task_detail", task_id |-> id, card |-> Ok(card),
    activities |-> activities] :
     id \in TaskIds, card \in KanbanCards, activities \in KanbanActivityLists}

\* responses that fail or carry nulls
KanbanOddResponses ==
  << [card |-> Raised, activities |-> Ok(None)],
     [card |-> Ok(Dict("title" :> None)), activities |-> Ok(None)],
     [card |-> Ok(Dict("description" :> None)), activities |-> Ok(None)],
     [card |-> Ok(Dict("tags" :> None)), activities |-> Ok(None)],
     [card |-> Ok(Dict("title" :> Str(<<"F","i","x">>))),
      activities |-> Ok(List(<<Dict(("name" :> Str(<<"k","a","n","b","a","n","_","c","a","r","d","s",".","c","o","m","m","e","n","t">>))
                                   @@ ("createdAt" :> None))>>))],
     [card |-> Ok(Dict("title" :> Str(<<"F","i","x">>))),
      activities |-> Ok(List(<<Dict(("name" :> Str(<<"k","a","n","b","a","n","_","c","a","r","d","s",".","c","o","m","m","e","n","t">>))
                                   @@ ("data" :> None))>>))],
     [card |-> Ok(Dict("title" :> Str(<<"F","i","x">>))),
      activities |-> Ok(Dict("message" :> Str(<<"n","o","n","e">>)))] >>

KanbanDetailCall(id, card, activities) ==
  [fn |-> "KanbanBackend.get_task_detail", task_id |-> id, card |-> card,
   activities |-> activities]

\* what _fetch_and_format_comments gets from _post, for every activity list
FetchCommentsCalls ==
  {[fn |-> "_fetch_and_format_comments", card_id |-> id, activities |-> activities] :
     id \in TaskIds, activities \in KanbanActivityLists}

\* activity payloads that are no list of activity records
FetchOddActivities ==
  << Ok(Dict("message" :> Str(<<"n","o","n","e">>))),
     Ok(List(<<None>>)),
     Ok(List(<<Dict(("name" :> Str(<<"k","a","n","b","a","n","_","c","a","r","d","s",".","c","o","m","m","e","n","t">>)) @@ ("data" :> None))>>)),
     Ok(EmptyDict) >>

FetchCommentsCall(id, activities) ==
  [fn |-> "_fetch_and_format_comments", card_id |-> id, activities |-> activities]

SectionIds == {"s1", "s2"}

\* what comes back for a request: nothing, or a status and a body
HttpOutcomes ==
  {[responded |-> FALSE]}
  \cup {[responded |-> TRUE, status |-> status, json |-> json] :
          status \in {200, 201, 404, 500},
          json \in {Raised, Ok(Dict("data" :> Dict("ok" :> Bool(TRUE)))),
                    Ok(Dict("ok" :> Bool(TRUE))), Ok(List(<<>>))}}

KanbanMoveCalls ==
  {[fn |-> "KanbanBackend.move_task", task_id |-> id, from_section_id |-> from,
    to_section_id |-> to, base_url |-> base_url, api_key |-> api_key, http |-> http] :
     id \in TaskIds, from \in SectionIds, to \in SectionIds,
     base_url \in {None, Str(<<>>), Str(<<"h","t","t","p","s",":","/","/","k">>)},
     api_key \in {None, Str(<<>>), Str(<<"k","e","y">>)}, http \in HttpOutcomes}

\* what APIClient does: its constructor raises, or solve_task raises or returns
ApiClientOutcomes ==
  {[constructed |-> FALSE]}
  \cup {[constructed |-> TRUE, solved |-> solved] :
          solved \in {Raised, Ok(None), Ok(Dict("success" :> Bool(TRUE))),
                      Ok(Dict("success" :> Bool(FALSE)))}}

LarkMoveCalls ==
  {[fn |-> "LarkBackend.move_task", task_id |-> id, from_section_id |-> from,
    to_section_id |-> to, server_url |-> server_url, jwt_token |-> jwt_token,
    tasklist_guid |-> tasklist_guid, client |-> client] :
     id \in TaskIds, from \in SectionIds, to \in SectionIds,
     server_url \in {None, Str(<<"h","t","t","p","s",":","/","/","s">>)}, jwt_token \in {None, Str(<<"j","w","t">>)},
     tasklist_guid \in {None, Str(<<"t","l">>)}, client \in ApiClientOutcomes}

\* the settings a configuration file holds besides the backend type
ConfigSettings ==
  { <<>>,
    ("server_url" :> Str(<<"h","t","t","p","s",":","/","/","s">>)) @@ ("jwt_token" :> Str(<<"j","w","t">>))
      @@ ("lark_token" :> Str(<<"l","t">>)) @@ ("tasklist_guid" :> Str(<<"t","l">>)),
    ("kanban_base_url" :> Str(<<"h","t","t","p","s",":","/","/","k">>)) @@ ("kanban_api_key" :> Str(<<"k","e","y">>))
      @@ ("kanban_board_id" :> Str(<<"b","1">>)) }

\* what a configuration file gives as its backend type
ConfiguredTypes ==
  { <<>>, "backend_type" :> None, "backend_type" :> Str(<<>>),
    "backend_type" :> Str(<<"l","a","r","k">>), "backend_type" :> Str(<<"k","a","n","b","a","n">>),
    "backend_type" :> Str(<<"t","r","e","l","l","o">>), "backend_type" :> Str(<<"L","a","r","k">>) }

\* the configuration file: absent, empty, or a mapping
ConfigFiles ==
  {[exists |-> FALSE], [exists |-> TRUE, yaml |-> Ok(None)]}
  \cup {[exists |-> TRUE, yaml |-> Ok(Dict(type @@ settings))] :
          type \in ConfiguredTypes, settings \in ConfigSettings}

\* configuration files that cannot be read, hold no mapping, or give a
\* backend type that is no string
OddConfigFiles ==
  << [exists |-> TRUE, yaml |-> RaisedAs("YAMLError")],
     [exists |-> TRUE, yaml |-> Ok(List(<<Str(<<"l","a","r","k">>)>>))],
     [exists |-> TRUE, yaml |-> Ok(Dict("backend_type" :> Num(1)))],
     [exists |-> TRUE, yaml |-> Ok(Dict("backend_type" :> List(<<Str(<<"k","a","n","b","a","n">>)>>)))] >>

\* the backend_type argument of create_backend
BackendTypeArgs ==
  {None, Str(<<>>), Str(<<"l","a","r","k">>), Str(<<"k","a","n","b","a","n">>), Str(<<"t","r","e","l","l","o">>), Str(<<"K","A","N","B","A","N">>)}

CreateBackendCalls ==
  {[fn |-> "BackendFactory.create_backend", backend_type |-> backend_type, file |-> file] :
     backend_type \in BackendTypeArgs, file \in ConfigFiles}

GetBackendCalls == {[fn |-> "get_backend", file |-> file] : file \in ConfigFiles}

CreateBackendCall(backend_type, file) ==
  [fn |-> "BackendFactory.create_backend", backend_type |-> backend_type, file |-> file]

GetBackendCall(file) == [fn |-> "get_backend", file |-> file]

\* a working configuration of each backend
LarkSettings ==
  ("bugs_dir" :> Str(<<"b","u","g","s">>)) @@ ("server_url" :> Str(<<"h","t","t","p","s",":","/","/","s">>))
  @@ ("jwt_token" :> Str(<<"j","w","t">>)) @@ ("lark_token" :> Str(<<"l","t">>))
  @@ ("tasklist_guid" :> Str(<<"t","l">>)) @@ ("section_guid" :> Str(<<"s","1">>))
  @@ ("solved_section_guid" :> Str(<<"s","2">>))

KanbanSettings ==
  ("backend_type" :> Str(<<"k","a","n","b","a","n">>)) @@ ("bugs_dir" :> Str(<<"b","u","g","s">>))
  @@ ("kanban_base_url" :> Str(<<"h","t","t","p","s",":","/","/","k">>)) @@ ("kanban_api_key" :> Str(<<"k","e","y">>))
  @@ ("kanban_board_id" :> Str(<<"b","1">>)) @@ ("kanban_list_id" :> Str(<<"l","1">>))
  @@ ("kanban_done_list_id" :> Str(<<"l","2">>))

\* settings without one key
Without(settings, key) == [k \in DOMAIN settings \ {key} |-> settings[k]]

ConfigFileOf(settings) == [exists |-> TRUE, yaml |-> Ok(Dict(settings))]

\* the configurations solve is run with: working ones, and ones that lack a
\* setting solve needs
SolveConfigs ==
  {[exists |-> FALSE], ConfigFileOf(LarkSettings), ConfigFileOf(KanbanSettings),
   ConfigFileOf(("backend_type" :> Str(<<"l","a","r","k">>)) @@ LarkSettings),
   ConfigFileOf(Without(LarkSettings, "solved_section_guid")),
   ConfigFileOf(Without(KanbanSettings, "kanban_list_id")),
   ConfigFileOf(Without(KanbanSettings, "bugs_dir")),
   ConfigFileOf(Without(LarkSettings, "jwt_token")),
   ConfigFileOf(("backend_type" :> Str(<<"t","r","e","l","l","o">>)) @@ LarkSettings)}

\* what the service does with a request to move a task: it moves it, it
\* answers with an error, or it cannot be reached
RemoteOutcomes ==
  {[http |-> [responded |-> TRUE, status |-> 200,
              json |-> Ok(Dict("data" :> Dict("ok" :> Bool(TRUE))))],
    client |-> [constructed |-> TRUE, solved |-> Ok(None)]],
   [http |-> [responded |-> TRUE, status |-> 500, json |-> Raised],
    client |-> [constructed |-> TRUE, solved |-> Raised]],
   [http |-> [responded |-> FALSE], client |-> [constructed |-> FALSE]]}

\* the names and kinds of what lies in the bugs directory
EntryKinds ==
  {[name |-> <<"t","1">>, kind |-> "dir"], [name |-> <<"t","2">>, kind |-> "dir"],
   [name |-> <<"t","3">>, kind |-> "link"], [name |-> <<"n","o","t","e","s",".","t","x","t">>, kind |-> "file"],
   [name |-> <<" ">>, kind |-> "dir"]}

\* a directory of up to MaxEntries entries of different names, in the order
\* os.listdir gives them
BugsDirs ==
  {[exists |-> FALSE]}
  \cup {[exists |-> TRUE, entries |-> entries] :
          entries \in {e \in SeqsUpTo([name : {k.name : k \in EntryKinds},
                                        kind : {"dir", "link", "file"},
                                        remote : RemoteOutcomes], MaxEntries) :
                         /\ \A i \in 1..Len(e) :
                              [name |-> e[i].name, kind |-> e[i].kind] \in EntryKinds
                         /\ \A i, j \in 1..Len(e) : i # j => e[i].name # e[j].name}}

SolveCalls ==
  {[fn |-> "solve", keep |-> keep, file |-> file, bugs |-> bugs] :
     keep \in BOOLEAN, file \in SolveConfigs, bugs \in BugsDirs}

\* a key the configuration of the server does not hold
Absent == [t |-> "absent"]

\* the dict of the keys that are there
Present(slots) ==
  Dict([key \in {k \in DOMAIN slots : slots[k].t # "absent"} |-> slots[key]])

Named(name, content) == Dict(("name" :> Str(name)) @@ ("content" :> Str(content)))

Script(filename) ==
  Dict(("filename" :> Str(filename)) @@ ("content" :> Str(<<"#","!","/","b","i","n","/","s","h">>))
       @@ ("is_executable" :> Bool(TRUE)))

\* a skill, with the value of its scripts key, if it has one
Skill(name, scripts) ==
  Present(("name" :> Str(name)) @@ ("skill_md" :> Str(<<"#"," ","s","k","i","l","l">>)) @@ ("scripts" :> scripts))

\* what sync_claude_config may give for each key of the configuration
ClaudeMds == <<Absent, Str(<<>>), Str(<<"#"," ","r","u","l","e","s">>)>>
SettingsJsons == <<Absent, Dict("model" :> Str(<<"m">>))>>
McpJsons == <<Absent, EmptyDict, Dict("mcpServers" :> Dict("s" :> EmptyDict)), None>>
AgentLists ==
  <<Absent, List(<<>>), List(<<Named(<<"a">>, <<"A">>)>>),
    List(<<Named(<<"a">>, <<"A">>), Named(<<"b">>, <<>>)>>),
    List(<<Dict("name" :> Str(<<"a">>)), Named(<<"b">>, <<"B">>)>>)>>
SkillLists ==
  <<Absent, List(<<Skill(<<"s">>, Absent)>>), List(<<Skill(<<"s">>, List(<<>>))>>),
    List(<<Skill(<<"s">>, List(<<Script(<<"r","u","n",".","s","h">>)>>))>>),
    List(<<Skill(<<"s">>, None)>>),
    List(<<Skill(<<"s">>, None), Skill(<<"t">>, List(<<Script(<<"r","u","n",".","s","h">>)>>))>>)>>
CommandLists == <<Absent, List(<<Named(<<"c">>, <<"C">>)>>)>>

SyncConfig(c, s, m, a, k, cm) ==
  Present(("claude_md" :> ClaudeMds[c]) @@ ("settings_json" :> SettingsJsons[s])
          @@ ("mcp_json" :> McpJsons[m]) @@ ("agents" :> AgentLists[a])
          @@ ("skills" :> SkillLists[k]) @@ ("commands" :> CommandLists[cm]))

\* what git remote get-url origin and git rev-parse --show-toplevel give: in
\* a repository with a remote, in one without, and outside a repository
GitStates ==
  {[remote |-> Ok(<<"g","i","t","@","g","i","t","h","u","b",".","c","o","m",":","u","s","e","r","/","r","e","p","o",".","g","i","t","\n">>), root |-> Ok(<<"/","r">>)],
   [remote |-> Ok(<<"h","t","t","p","s",":","/","/","g","i","t","h","u","b",".","c","o","m","/","u","s","e","r","/","r","e","p","o","\n">>), root |-> Ok(<<"/","r">>)],
   [remote |-> Ok(<<"h","t","t","p","s",":","/","/","g","i","t","h","u","b",".","c","o","m","/","u","s","e","r","/","\n">>), root |-> Ok(<<"/","r">>)],
   [remote |-> Raised, root |-> Ok(<<"/","r">>)],
   [remote |-> Raised, root |-> Raised]}

\* the --repo option
RepoOptions == <<None, Str(<<>>), Str(<<"m","y","-","r","e","p","o">>)>>

\* the request fails, or the server answers with no configuration
SyncFailures == <<Raised, Ok(None)>>

SyncCall(repo, dry_run, git, server) ==
  [fn |-> "sync", repo |-> repo, dry_run |-> dry_run, git |-> git, server |-> server]

\* the tasks the service holds, by id, and the labels of each; the details
\* of t4 cannot be fetched
RemoteIds == {<<"t","1">>, <<"t","2">>, <<"t","3">>, <<"t","4">>}

LabelsOfTask(id) ==
  IF id = <<"t","1">> THEN <<Str(<<"B","u","g">>)>>
  ELSE IF id = <<"t","3">> THEN <<Str(<<"u","i">>), Str(<<"B","U","G">>)>>
  ELSE IF id \in {<<"t","5">>, <<"t","6">>} THEN <<Str(<<"b","u","g">>)>>
  ELSE <<>>

LarkRemoteTask(id) ==
  [id |-> id,
   response |-> IF id = <<"t","4">> THEN Raised
                ELSE Ok(Dict("data" :> Dict("task" :>
                       Dict(("summary" :> Str(id))
                            @@ ("custom_fields" :>
                                  List([i \in 1..Len(LabelsOfTask(id)) |->
                                          Dict("name" :> LabelsOfTask(id)[i])])))))),
   listed |-> Ok(None)]

KanbanRemoteCard(id) ==
  [id |-> id,
   card |-> IF id = <<"t","4">> THEN Raised
            ELSE Ok(Dict(("title" :> Str(id)) @@ ("tags" :> List(LabelsOfTask(id))))),
   activities |-> Ok(None)]

AllIds == <<<<"t","1">>, <<"t","2">>, <<"t","3">>, <<"t","4">>, <<"t","5">>, <<"t","6">>>>
LarkDetails == [i \in 1..Len(AllIds) |-> LarkRemoteTask(AllIds[i])]
KanbanDetails == [i \in 1..Len(AllIds) |-> KanbanRemoteCard(AllIds[i])]

\* the ids of the tasks of a section, in its order
SectionTasks ==
  {ids \in SeqsUpTo(RemoteIds, MaxTasks) : \A i, j \in 1..Len(ids) : i # j => ids[i] # ids[j]}

\* the --labels filter, as download passes it
LabelArgs ==
  <<None, List(<<>>), List(<<Str(<<"b","u","g">>)>>), List(<<Str(<<"B","U","G">>), Str(<<"x">>)>>),
    List(<<Str(<<"U","i">>)>>)>>

\* what list_tasks_in_section gives for a section of these tasks
LarkSection(ids) ==
  Ok(Dict("data" :> Dict("items" :> List([i \in 1..Len(ids) |-> Dict("guid" :> Str(ids[i]))]))))

LarkOddSections ==
  <<Raised, Ok(None), Ok(EmptyDict), Ok(Dict("data" :> None)),
    Ok(Dict("data" :> Dict("items" :> List(<<EmptyDict>>))))>>

LarkBackends ==
  {NewLarkBackend(Ok(Dict(LarkSettings))).v,
   NewLarkBackend(Ok(Dict(Without(LarkSettings, "lark_token")))).v}

\* in_section is the ids of the tasks the service holds in the section asked for
LarkListCall(backend, labels, result, utc_offset, in_section) ==
  [fn |-> "LarkBackend.list_tasks", backend |-> backend, labels |-> labels,
   result |-> result, details |-> LarkDetails, utc_offset |-> utc_offset,
   in_section |-> in_section]

\* a card of the board of the Kanban service, as the board info gives it
Card(id) == Dict("id" :> Str(id))
CardIn(id, list) == Dict(("id" :> Str(id)) @@ ("listId" :> Str(list)))

\* the board info for a board of two lists, l1 with the cards of these ids and
\* l2 with card t5: the cards inside their lists; the cards beside the lists,
\* each with its listId; and as the first, with a card t6 that is in no list
BoardShapes == {"nested", "flat", "unlisted"}

BoardInfo(shape, ids) ==
  IF shape = "flat"
  THEN Dict(("lists" :> List(<<Dict("id" :> Str(<<"l","1">>)), Dict("id" :> Str(<<"l","2">>))>>))
            @@ ("cards" :> List([i \in 1..Len(ids) |-> CardIn(ids[i], <<"l","1">>)]
                                \o <<CardIn(<<"t","5">>, <<"l","2">>)>>)))
  ELSE Dict(("lists" :> List(
               <<Dict(("id" :> Str(<<"l","1">>))
                      @@ ("cards" :> List([i \in 1..Len(ids) |-> Card(ids[i])]))),
                 Dict(("id" :> Str(<<"l","2">>)) @@ ("cards" :> List(<<Card(<<"t","5">>)>>)))>>))
            @@ ("cards" :> List(IF shape = "unlisted" THEN <<Card(<<"t","6">>)>> ELSE <<>>)))

KanbanOddBoards ==
  <<Raised, Ok(None), Ok(EmptyDict), Ok(Dict("lists" :> None)),
    Ok(Dict("lists" :> List(<<Dict(("id" :> Str(<<"l","1">>)) @@ ("cards" :> List(<<None>>)))>>)))>>

KanbanBackends ==
  {NewKanbanBackend(Ok(Dict(KanbanSettings))).v,
   NewKanbanBackend(Ok(Dict(Without(KanbanSettings, "kanban_board_id")))).v}

\* the cards of a list of the board BoardInfo describes
CardsInList(section_id, ids) ==
  IF section_id = <<"l","1">> THEN ids ELSE IF section_id = <<"l","2">> THEN <<<<"t","5">>>> ELSE <<>>

\* in_section is the ids of the cards the service holds in the list asked for
KanbanListCall(backend, section_id, labels, board_info, in_section) ==
  [fn |-> "KanbanBackend.list_tasks", backend |-> backend, section_id |-> section_id,
   labels |-> labels, board_info |-> board_info, details |-> KanbanDetails,
   in_section |-> in_section]

\* the options of download
LabelOptions == <<None, Str(<<"b","u","g">>), Str(<<"B","u","g",","," ","x">>)>>
SectionOptions == <<None, Str(<<"l","2">>)>>
DirOptions == <<None, Str(<<"o","u","t">>)>>

NoFiles == [dirs |-> {}, files |-> <<>>]

\* the bugs directory of an earlier download, with the folder of task t1, a
\* note the user keeps in it, and the folder of a task t9
EarlierFiles ==
  [dirs |-> {<<<<"b","u","g","s">>>>, <<<<"b","u","g","s">>, <<"t","1">>>>, <<<<"b","u","g","s">>, <<"t","9">>>>},
   files |-> (<<<<"b","u","g","s">>, <<"t","1">>, <<"d","e","s","c","r","i","p","t","i","o","n",".","m","d">>>> :> <<"o","l","d">>)
             @@ (<<<<"b","u","g","s">>, <<"t","1">>, <<"n","o","t","e","s",".","m","d">>>> :> <<"m","i","n","e">>)
             @@ (<<<<"b","u","g","s">>, <<"t","9">>, <<"d","e","s","c","r","i","p","t","i","o","n",".","m","d">>>> :> <<"o","t","h","e","r">>)]

\* a file where the folder of task t2 would be
FileInTheWay ==
  [dirs |-> {<<<<"b","u","g","s">>>>}, files |-> (<<<<"b","u","g","s">>, <<"t","2">>>> :> <<"x">>)]

FileSystems == {NoFiles, EarlierFiles, FileInTheWay}

DownloadConfigs ==
  {ConfigFileOf(LarkSettings), ConfigFileOf(KanbanSettings),
   ConfigFileOf(Without(KanbanSettings, "kanban_list_id")),
   ConfigFileOf(Without(LarkSettings, "lark_token")), [exists |-> FALSE]}

\* what the service holds: a section of these tasks, for either backend
RemoteOf(shape, ids) ==
  [result |-> LarkSection(ids), details |-> LarkDetails,
   board_info |-> Ok(BoardInfo(shape, ids)), kanban_details |-> KanbanDetails,
   in_section |-> ids]

DownloadCall(labels, section, bugs_dir_option, file, remote, fs) ==
  [fn |-> "download", labels |-> labels, section |-> section,
   bugs_dir_option |-> bugs_dir_option, file |-> file, remote |-> remote,
   utc_offset |-> 0, fs |-> fs]

RichTextCall(d) == [fn |-> "rich_text_to_markdown", rich_text |-> d]
RichTextCalls(docs) == {RichTextCall(d) : d \in docs}

\* the configuration files setup is run with: none, and a working one of each
\* backend, the one of Lark with and without its backend type
SetupFiles ==
  {[exists |-> FALSE], ConfigFileOf(LarkSettings), ConfigFileOf(KanbanSettings),
   ConfigFileOf(("backend_type" :> Str(<<"l","a","r","k">>)) @@ LarkSettings)}

\* what is typed at "Select backend": nothing, "1" or "2"
Choices == {<<>>, <<"1">>, <<"2">>}

\* the files and choices with which setup takes the backend of that number
StartsOf(number) ==
  {start \in SetupFiles \X Choices :
     ChoiceOf(start[2], get_backend_type(start[1]).v) = number}

\* what is typed at the prompts of setup_lark: nothing at a prompt with a
\* default, and at the prompt for the token a token, blanks, or Ctrl-C
TypedLark ==
  {[server_url |-> IF new THEN <<"h","t","t","p","s",":","/","/","n","e","w">> ELSE <<>>,
    bugs_dir |-> IF new THEN <<"o","u","t">> ELSE <<>>, jwt_token |-> jwt_token] :
     new \in BOOLEAN, jwt_token \in {Raised, Ok(<<"j","w","t","2">>), Ok(<<" ","j","w","t","2"," ">>), Ok(<<" ">>)}}

\* what is typed at the prompts of setup_kanban
TypedKanban ==
  {[server_url |-> IF new THEN <<"h","t","t","p","s",":","/","/","n","e","w">> ELSE <<>>,
    bugs_dir |-> IF new THEN <<"o","u","t">> ELSE <<>>,
    kanban_base_url |-> IF new THEN <<"h","t","t","p","s",":","/","/","k","2">> ELSE <<>>,
    kanban_api_key |-> kanban_api_key] :
     new \in BOOLEAN, kanban_api_key \in {Raised, Ok(<<>>), Ok(<<"k","e","y","2">>), Ok(<<" ","k","e","y","2"," ">>), Ok(<<" ">>)}}

\* an entry of a listing
Entry(key, id) == Dict((key :> Str(id)) @@ ("name" :> Str(<<"N">> \o id)))

\* what the Lark client gives for a listing of these ids
LarkListing(ids) ==
  Ok(Dict("data" :> Dict("items" :> List([i \in 1..Len(ids) |-> Entry("guid", ids[i])]))))

\* what get_board_info gives for a board with these lists
KanbanBoard(ids) ==
  Ok(Dict("lists" :> List([i \in 1..Len(ids) |-> Entry("id", ids[i])])))

\* the service as setup_lark finds it: two tasklists, of two sections and of one
LarkRemote ==
  [login_url |-> Ok(<<"h","t","t","p","s",":","/","/","l","o","g","i","n">>),
   lark_token_data |-> Ok(Dict("access_token" :> Str(<<"l","t","2">>))),
   tasklists |-> LarkListing(<<<<"t","l","1">>, <<"t","l","2">>>>),
   sections |-> <<LarkListing(<<<<"s","1">>, <<"s","2">>>>), LarkListing(<<<<"s","3">>>>)>>]

\* the service, and the ways it fails or has nothing to select
LarkRemotes ==
  << LarkRemote,
     [LarkRemote EXCEPT !.login_url = Raised],
     [LarkRemote EXCEPT !.lark_token_data = Raised],
     [LarkRemote EXCEPT !.lark_token_data = Ok(EmptyDict)],
     [LarkRemote EXCEPT !.tasklists = Raised],
     [LarkRemote EXCEPT !.tasklists = LarkListing(<<>>)],
     [LarkRemote EXCEPT !.tasklists = Ok(Dict("data" :> Dict("items" :>
                                         List(<<Dict("guid" :> Str(<<"t","l","1">>))>>))))],
     [LarkRemote EXCEPT !.sections = <<Raised, Raised>>],
     [LarkRemote EXCEPT !.sections = <<LarkListing(<<>>), LarkListing(<<>>)>>],
     [LarkRemote EXCEPT !.tasklists = LarkListing(<<<<"t","l","1">>>>)] >>

\* the service as setup_kanban finds it: two boards, of two lists and of one
KanbanRemote ==
  [boards |-> Ok(List(<<Entry("id", <<"b","1">>), Entry("id", <<"b","2">>)>>)),
   board_info |-> <<KanbanBoard(<<<<"l","1">>, <<"l","2">>>>), KanbanBoard(<<<<"l","3">>>>)>>]

KanbanRemotes ==
  << KanbanRemote,
     [KanbanRemote EXCEPT !.boards = Raised],
     [KanbanRemote EXCEPT !.boards = Ok(List(<<>>))],
     [KanbanRemote EXCEPT !.boards = Ok(EmptyDict)],
     [KanbanRemote EXCEPT !.boards = Ok(List(<<Dict("id" :> Str(<<"b","1">>))>>))],
     [KanbanRemote EXCEPT !.board_info = <<Raised, Raised>>],
     [KanbanRemote EXCEPT !.board_info = <<Ok(EmptyDict), Ok(EmptyDict)>>],
     [KanbanRemote EXCEPT !.board_info = <<KanbanBoard(<<>>), KanbanBoard(<<>>)>>],
     [KanbanRemote EXCEPT !.board_info = <<Ok(Dict("lists" :> None)), KanbanBoard(<<<<"l","3">>>>)>>],
     [KanbanRemote EXCEPT !.boards = Ok(List(<<Entry("id", <<"b","1">>)>>))] >>

\* what is typed at the three selections, one answer after the other: an
\* empty answer takes the default, and the answers may end (the input is closed)
Answers ==
  {[board |-> board, section |-> section, solved |-> solved] :
     board \in {<< <<>> >>, <<<<"2">>>>, <<<<"3">>, <<"1">>>>, <<<<"x">>>>},
     section \in {<< <<>> >>, <<<<"2">>>>, <<<<"0">>, <<" ","1"," ">>>>, <<>>},
     solved \in {<< <<>> >>, <<<<"1">>>>, <<<<"-","1">>, <<"2">>>>, <<<<"1",".","0">>>>}}

SetupCall(file, choice, typed, remote, answers) ==
  [fn |-> "setup", file |-> file, choice |-> choice, typed |-> typed, remote |-> remote,
   answers |-> answers]

----------------------------------------------------------------------------
(* The calls and their results *)

Pending == [st |-> "pending"]

\* what the caller sees: the value returned, or the exception
Outcome(result) ==
  IF result.ok THEN [st |-> "returned", v |-> result.v] ELSE [st |-> "raised"]

\* the result of a call that is finished, with the class of its exception
OutcomeAs(result) ==
  IF result.ok THEN [st |-> "returned", v |-> result.v]
  ELSE [st |-> "raised", exc |-> result.exc]

Init ==
  /\ ret = Pending
  /\ \/ call \in RichTextCalls(StyledDocs)
     \/ call \in RichTextCalls(ParagraphStyleDocs)
     \/ call \in RichTextCalls(ElementDocs)
     \/ call \in RichTextCalls(GalleryDocs)
     \/ call \in RichTextCalls(ParagraphDocs)
     \/ call \in RichTextCalls(CalloutDocs)
     \/ \E i \in 1..Len(NullFieldDocs) : call = RichTextCall(NullFieldDocs[i])
     \/ \E i \in 1..Len(WrongTypeDocs) : call = RichTextCall(WrongTypeDocs[i])
     \/ \E i \in 1..Len(ScalarInputs) : call = RichTextCall(ScalarInputs[i])
     \/ call \in CommentNodeCalls
     \/ \E i \in 1..Len(MalformedCommentNodes) :
          call = CommentNodeCall(MalformedCommentNodes[i], 0)
     \/ call \in FetchCommentsCalls
     \/ \E id \in TaskIds, i \in 1..Len(FetchOddActivities) :
          call = FetchCommentsCall(id, FetchOddActivities[i])
     \/ call \in LarkDetailCalls
     \/ \E id \in TaskIds, i \in 1..Len(LarkOddResponses) :
          call = LarkDetailCall(id, LarkOddResponses[i], Ok(List(<<>>)), 0)
     \/ call \in KanbanDetailCalls
     \/ \E id \in TaskIds, i \in 1..Len(KanbanOddResponses) :
          call = KanbanDetailCall(id, KanbanOddResponses[i].card,
                                  KanbanOddResponses[i].activities)
     \/ call \in LarkMoveCalls
     \/ call \in KanbanMoveCalls
     \/ call \in CreateBackendCalls
     \/ \E backend_type \in BackendTypeArgs, i \in 1..Len(OddConfigFiles) :
          call = CreateBackendCall(backend_type, OddConfigFiles[i])
     \/ call \in GetBackendCalls
     \/ \E i \in 1..Len(OddConfigFiles) : call = GetBackendCall(OddConfigFiles[i])
     \/ call \in SolveCalls
     \/ \E i \in 1..Len(OddConfigFiles) :
          call = [fn |-> "solve", keep |-> FALSE, file |-> OddConfigFiles[i],
                  bugs |-> [exists |-> FALSE]]
     \/ \E start \in StartsOf(<<"1">>), typed \in TypedLark, i \in 1..Len(LarkRemotes),
           answers \in Answers :
          call = SetupCall(start[1], start[2], typed, LarkRemotes[i], answers)
     \/ \E start \in StartsOf(<<"2">>), typed \in TypedKanban, i \in 1..Len(KanbanRemotes),
           answers \in Answers :
          call = SetupCall(start[1], start[2], typed, KanbanRemotes[i], answers)
     \/ \E i \in 1..Len(OddConfigFiles), typed \in TypedLark, answers \in Answers :
          call = SetupCall(OddConfigFiles[i], <<"1">>, typed, LarkRemote, answers)
     \/ \E r \in 1..Len(RepoOptions), dry_run \in BOOLEAN, git \in GitStates,
           c \in 1..Len(ClaudeMds), s \in 1..Len(SettingsJsons), m \in 1..Len(McpJsons),
           a \in 1..Len(AgentLists), k \in 1..Len(SkillLists), cm \in 1..Len(CommandLists) :
          call = SyncCall(RepoOptions[r], dry_run, git, Ok(SyncConfig(c, s, m, a, k, cm)))
     \/ \E dry_run \in BOOLEAN, git \in GitStates, i \in 1..Len(SyncFailures) :
          call = SyncCall(Str(<<"m","y","-","r","e","p","o">>), dry_run, git, SyncFailures[i])
     \/ \E l \in 1..Len(LabelOptions), s \in 1..Len(SectionOptions),
           d \in 1..Len(DirOptions), file \in DownloadConfigs, shape \in BoardShapes,
           ids \in SectionTasks, fs \in FileSystems :
          call = DownloadCall(LabelOptions[l], SectionOptions[s], DirOptions[d], file,
                              RemoteOf(shape, ids), fs)
     \/ \E backend \in LarkBackends, l \in 1..Len(LabelArgs), ids \in SectionTasks,
           utc_offset \in UtcOffsets :
          call = LarkListCall(backend, LabelArgs[l], LarkSection(ids), utc_offset, ids)
     \/ \E l \in 1..Len(LabelArgs), i \in 1..Len(LarkOddSections) :
          call = LarkListCall(NewLarkBackend(Ok(Dict(LarkSettings))).v, LabelArgs[l],
                              LarkOddSections[i], 0, <<>>)
     \/ \E backend \in KanbanBackends, section_id \in {<<"l","1">>, <<"l","2">>, <<"l","9">>},
           l \in 1..Len(LabelArgs), shape \in BoardShapes, ids \in SectionTasks :
          call = KanbanListCall(backend, section_id, LabelArgs[l], Ok(BoardInfo(shape, ids)),
                                CardsInList(section_id, ids))
     \/ \E l \in 1..Len(LabelArgs), i \in 1..Len(KanbanOddBoards) :
          call = KanbanListCall(NewKanbanBackend(Ok(Dict(KanbanSettings))).v, <<"l","1">>,
                                LabelArgs[l], KanbanOddBoards[i], <<>>)

RichTextToMarkdown ==
  /\ ret = Pending
  /\ call.fn = "rich_text_to_markdown"
  /\ ret' = Outcome(rich_text_to_markdown(call.rich_text))
  /\ UNCHANGED call

FormatCommentNode ==
  /\ ret = Pending
  /\ call.fn = "_format_comment_node"
  /\ ret' = Outcome(_format_comment_node(call.content, call.author, call.created_at,
                                         call.replies, call.level))
  /\ UNCHANGED call

FetchAndFormatComments ==
  /\ ret = Pending
  /\ call.fn = "_fetch_and_format_comments"
  /\ ret' = Outcome(_fetch_and_format_comments(call.activities))
  /\ UNCHANGED call

LarkDetail ==
  /\ ret = Pending
  /\ call.fn = "LarkBackend.get_task_detail"
  /\ ret' = Outcome(LarkGetTaskDetail(call.task_id, call.response, call.listed,
                                      call.utc_offset))
  /\ UNCHANGED call

KanbanDetail ==
  /\ ret = Pending
  /\ call.fn = "KanbanBackend.get_task_detail"
  /\ ret' = Outcome(KanbanGetTaskDetail(call.task_id, call.card, call.activities))
  /\ UNCHANGED call

LarkMove ==
  /\ ret = Pending
  /\ call.fn = "LarkBackend.move_task"
  /\ ret' = Outcome(LarkMoveTask(call.client))
  /\ UNCHANGED call

KanbanMove ==
  /\ ret = Pending
  /\ call.fn = "KanbanBackend.move_task"
  /\ ret' = Outcome(KanbanMoveTask(call.base_url, call.api_key, call.http))
  /\ UNCHANGED call

CreateBackend ==
  /\ ret = Pending
  /\ call.fn = "BackendFactory.create_backend"
  /\ ret' = OutcomeAs(create_backend(call.backend_type, call.file))
  /\ UNCHANGED call

GetBackend ==
  /\ ret = Pending
  /\ call.fn = "get_backend"
  /\ ret' = OutcomeAs(get_backend(call.file))
  /\ UNCHANGED call

Solve ==
  /\ ret = Pending
  /\ call.fn = "solve"
  /\ ret' = OutcomeAs(solve(call.keep, call.file, call.bugs))
  /\ UNCHANGED call

LarkListTasksCall ==
  /\ ret = Pending
  /\ call.fn = "LarkBackend.list_tasks"
  /\ ret' = Outcome(LarkListTasks(call.backend, call.labels, call.result, call.details,
                                  call.utc_offset))
  /\ UNCHANGED call

KanbanListTasksCall ==
  /\ ret = Pending
  /\ call.fn = "KanbanBackend.list_tasks"
  /\ ret' = Outcome(KanbanListTasks(call.backend, call.section_id, call.labels,
                                    call.board_info, call.details))
  /\ UNCHANGED call

Download ==
  /\ ret = Pending
  /\ call.fn = "download"
  /\ ret' = OutcomeAs(download(call.labels, call.section, call.bugs_dir_option, call.file,
                               call.remote, call.utc_offset, call.fs))
  /\ UNCHANGED call

Setup ==
  /\ ret = Pending
  /\ call.fn = "setup"
  /\ ret' = OutcomeAs(setup(call.file, call.choice, call.typed, call.remote, call.answers))
  /\ UNCHANGED call

Sync ==
  /\ ret = Pending
  /\ call.fn = "sync"
  /\ ret' = OutcomeAs(sync(call.repo, call.dry_run, call.git, call.server))
  /\ UNCHANGED call

Next ==
  \/ RichTextToMarkdown \/ FormatCommentNode \/ FetchAndFormatComments
  \/ LarkDetail \/ KanbanDetail
  \/ LarkMove \/ KanbanMove
  \/ CreateBackend \/ GetBackend
  \/ Solve
  \/ Sync
  \/ Download
  \/ Setup
  \/ LarkListTasksCall
  \/ KanbanListTasksCall

Spec == Init /\ [][Next]_vars

----------------------------------------------------------------------------
(* What the claims speak of *)

StartsWith(s, prefix) == Len(s) >= Len(prefix) /\ SubSeq(s, 1, Len(prefix)) = prefix

RECURSIVE SplitLines(_)
\* the lines of s, as s.split("\n") gives them
SplitLines(s) ==
  IF \A i \in 1..Len(s) : s[i] # "\n" THEN <<s>>
  ELSE LET k == CHOOSE i \in 1..Len(s) : s[i] = "\n" /\ \A j \in 1..(i - 1) : s[j] # "\n"
       IN <<SubSeq(s, 1, k - 1)>> \o SplitLines(SubSeq(s, k + 1, Len(s)))

\* the least position from which sub occurs in s at or after from, 0 when none
Find(s, sub, from) ==
  LET hits == {i \in from..(Len(s) - Len(sub) + 1) : SubSeq(s, i, i + Len(sub) - 1) = sub}
  IN IF hits = {} THEN 0 ELSE CHOOSE i \in hits : \A j \in hits : i <= j

RECURSIVE InOrderFrom(_, _, _)
\* the parts occur in s one after the other, none overlapping the one before
InOrderFrom(s, parts, from) ==
  IF parts = <<>> THEN TRUE
  ELSE LET at == Find(s, parts[1], from)
       IN at # 0 /\ InOrderFrom(s, Tail(parts), at + Len(parts[1]))

InOrder(s, parts) == InOrderFrom(s, parts, 1)

Returned == ret.st = "returned"
Finished == ret.st # "pending"

IsRichTextCall == call.fn = "rich_text_to_markdown"
IsCommentNodeCall == call.fn = "_format_comment_node"
IsLarkDetailCall == call.fn = "LarkBackend.get_task_detail"
IsKanbanDetailCall == call.fn = "KanbanBackend.get_task_detail"

\* the document is one paragraph of one element, every level a dict or list
SoleElementDoc(d) ==
  /\ d.t = "dict" /\ "content" \in DOMAIN d.v
  /\ d.v.content.t = "list" /\ Len(d.v.content.v) = 1
  /\ LET p == d.v.content.v[1]
     IN /\ p.t = "dict" /\ "elements" \in DOMAIN p.v
        /\ ("style" \in DOMAIN p.v => p.v.style.t = "dict")
        /\ p.v.elements.t = "list" /\ Len(p.v.elements.v) = 1
        /\ p.v.elements.v[1].t = "dict"

SoleParagraph(d) == d.v.content.v[1]
SoleStyle(d) == Get(SoleParagraph(d), "style", EmptyDict)
SoleElement(d) == SoleParagraph(d).v.elements.v[1]

\* the sole element is a text run with a string text and a dict style
SoleTextRunDoc(d) ==
  /\ SoleElementDoc(d)
  /\ DOMAIN SoleElement(d).v = {"textRun"}
  /\ LET run == SoleElement(d).v.textRun
     IN /\ run.t = "dict" /\ "text" \in DOMAIN run.v /\ run.v.text.t = "str"
        /\ ("style" \in DOMAIN run.v => run.v.style.t = "dict")
        /\ LET style == Get(run, "style", EmptyDict)
           IN "link" \in DOMAIN style.v => style.v.link.t = "dict"

RunText(d) == SoleElement(d).v.textRun.v.text.v
RunStyle(d) == Get(SoleElement(d).v.textRun, "style", EmptyDict)
Flag(style, key) == key \in DOMAIN style.v /\ Truthy(style.v[key])
LinkUrl(style) ==
  IF Flag(style, "link") /\ Flag(style.v.link, "url") THEN style.v.link.v.url.v ELSE <<>>

\* the paragraph style's fields are of the schema's types
TypedParagraphStyle(style) ==
  /\ \A k \in {"codeBlock", "quote"} : k \in DOMAIN style.v => style.v[k].t = "bool"
  /\ "headingLevel" \in DOMAIN style.v => style.v.headingLevel.t = "int"
  /\ "codeLanguage" \in DOMAIN style.v => style.v.codeLanguage.t = "str"
  /\ "list" \in DOMAIN style.v =>
       /\ style.v.list.t = "dict"
       /\ "type" \in DOMAIN style.v.list.v => style.v.list.v.type.t = "str"
       /\ "indentLevel" \in DOMAIN style.v.list.v => style.v.list.v.indentLevel.t = "int"

\* the markers that open and close a styled run, outermost first and last
OpeningMarkers(style) ==
  (IF LinkUrl(style) # <<>> THEN <<"[">> ELSE <<>>)
  \o (IF Flag(style, "codeInline") THEN <<BT>> ELSE <<>>)
  \o (IF Flag(style, "strikethrough") THEN <<"~","~">> ELSE <<>>)
  \o (IF Flag(style, "italic") THEN <<"*">> ELSE <<>>)
  \o (IF Flag(style, "bold") THEN <<"*","*">> ELSE <<>>)

ClosingMarkers(style) ==
  (IF Flag(style, "bold") THEN <<"*","*">> ELSE <<>>)
  \o (IF Flag(style, "italic") THEN <<"*">> ELSE <<>>)
  \o (IF Flag(style, "strikethrough") THEN <<"~","~">> ELSE <<>>)
  \o (IF Flag(style, "codeInline") THEN <<BT>> ELSE <<>>)
  \o (IF LinkUrl(style) # <<>> THEN <<"]","(">> \o LinkUrl(style) \o <<")">> ELSE <<>>)

\* the one wrap a paragraph style asks for: fence, else quote, else heading
ExpectedWrap(style, line) ==
  IF Flag(style, "codeBlock")
  THEN <<BT,BT,BT>> \o Get(style, "codeLanguage", Str(<<>>)).v \o <<"\n">> \o line \o <<"\n",BT,BT,BT>>
  ELSE IF Flag(style, "quote") THEN <<">"," ">> \o line
  ELSE IF Flag(style, "headingLevel")
  THEN [i \in 1..style.v.headingLevel.v |-> "#"] \o <<" ">> \o line
  ELSE line

\* the indentation and marker of a list item
ExpectedListMarker(style) ==
  LET lst == style.v.list
      n == IF "indentLevel" \in DOMAIN lst.v THEN lst.v.indentLevel.v ELSE 0
  IN [i \in 1..(2 * n) |-> " "]
     \o (IF "type" \in DOMAIN lst.v /\ lst.v.type.v = <<"n","u","m","b","e","r">> THEN <<"1","."," ">> ELSE <<"-"," ">>)

\* C1: a callout's rendered content has the quote marker "> " at the start of
\* every one of its lines
C1_CalloutQuotesEveryLine ==
  (/\ IsRichTextCall /\ Returned
   /\ SoleElementDoc(call.rich_text)
   /\ DOMAIN SoleStyle(call.rich_text).v = {}
   /\ DOMAIN SoleElement(call.rich_text).v = {"callout"})
  => LET lines == SplitLines(ret.v)
     IN \A i \in 1..Len(lines) : StartsWith(lines[i], <<">"," ">>)

\* the comment activities of a card
CommentActivityCount(activities) ==
  IF activities.ok /\ activities.v.t = "list"
  THEN Cardinality({i \in 1..Len(activities.v.v) :
         /\ activities.v.v[i].t = "dict"
         /\ "name" \in DOMAIN activities.v.v[i].v
         /\ activities.v.v[i].v.name.t = "str"
         /\ activities.v.v[i].v.name.v = <<"k","a","n","b","a","n","_","c","a","r","d","s",".","c","o","m","m","e","n","t">>})
  ELSE 0

\* the comments the backend lists for the task of the call
HasComments ==
  IF IsLarkDetailCall THEN call.listed.ok /\ Truthy(call.listed.v)
  ELSE CommentActivityCount(call.activities) > 0

\* the description body the task of the call carries, when it is text
BodyText ==
  IF IsLarkDetailCall
  THEN LET task == call.response.v.v.data.v.task
       IN IF "description" \in DOMAIN task.v /\ task.v.description.t = "str"
          THEN task.v.description.v ELSE <<>>
  ELSE IF "description" \in DOMAIN call.card.v.v /\ call.card.v.v.description.t = "str"
       THEN Strip(call.card.v.v.description.v) ELSE <<>>

\* the parts of a composed description, in the order they are to appear
DescriptionParts(item) ==
  <<<<"#"," ">> \o Fmt(item.title)>>
  \o (IF Truthy(item.priority) THEN <<<<"*","*","P","r","i","o","r","i","t","y",":","*","*"," ">> \o Fmt(item.priority)>> ELSE <<>>)
  \o (IF Truthy(item.due_date) THEN <<<<"*","*","D","u","e">>, <<":","*","*"," ">> \o Fmt(item.due_date)>> ELSE <<>>)
  \o (IF Truthy(item.labels) THEN <<<<"*","*","L","a","b","e","l","s",":","*","*"," ">> \o item.labels.v[1].v>> ELSE <<>>)
  \o <<<<"\n","\n">>>>
  \o (IF BodyText # <<>> THEN <<BodyText>> ELSE <<>>)
  \o (IF HasComments THEN <<<<"#","#"," ","C","o","m","m","e","n","t","s">>>> ELSE <<>>)

\* C2: for both backends the composed description holds, in this order, the
\* title heading, the priority line iff there is a priority, the due-date line
\* iff there is a due date, the labels line iff there is a label, a blank line,
\* the body, and the comment block iff the task has comments
C2_DescriptionPartsInOrder ==
  ((IsLarkDetailCall \/ IsKanbanDetailCall) /\ Returned
   /\ ret.v.title.t = "str" /\ ret.v.labels.t = "list")
  => /\ InOrder(ret.v.description, DescriptionParts(ret.v))
     /\ Contains(ret.v.description, <<"*","*","P","r","i","o","r","i","t","y",":","*","*">>) <=> Truthy(ret.v.priority)
     /\ Contains(ret.v.description, <<"*","*","D","u","e">>) <=> Truthy(ret.v.due_date)
     /\ Contains(ret.v.description, <<"*","*","L","a","b","e","l","s",":","*","*">>) <=> Truthy(ret.v.labels)
     /\ Contains(ret.v.description, <<"#","#"," ","C","o","m","m","e","n","t","s">>) <=> HasComments

\* C3: the renderers return a string, and never raise, for a document or a
\* comment record whose fields are missing or null or whose element is of an
\* unknown kind
C3_RenderersNeverRaise ==
  (Finished /\ (\/ IsCommentNodeCall
                \/ IsRichTextCall /\ call.rich_text.t \in {"dict", "none"}
                   /\ \A i \in 1..Len(WrongTypeDocs) : call.rich_text # WrongTypeDocs[i]))
  => Returned

\* C4 as stated: rich_text_to_markdown returns every string it is given unchanged
C4_StringReturnedUnchanged ==
  (Finished /\ IsRichTextCall /\ call.rich_text.t = "str")
  => Returned /\ ret.v = call.rich_text.v

\* the task of a Lark call stores its description as text
LarkTextDescription ==
  /\ IsLarkDetailCall /\ call.response.ok
  /\ call.response.v.t = "dict" /\ "data" \in DOMAIN call.response.v.v
  /\ call.response.v.v.data.t = "dict" /\ "task" \in DOMAIN call.response.v.v.data.v
  /\ call.response.v.v.data.v.task.t = "dict"
  /\ "description" \in DOMAIN call.response.v.v.data.v.task.v
  /\ call.response.v.v.data.v.task.v.description.t = "str"

\* C4 amended: get_task_detail passes a description stored as text through
\* unchanged, after the rule that opens the body; rich_text_to_markdown itself
\* returns "" for the empty string and raises for any other string
C4_StringPassesThroughDetail ==
  /\ (Finished /\ LarkTextDescription)
     => /\ Returned
        /\ BodyText # <<>> =>
             /\ Contains(ret.v.description, <<"\n","\n","-","-","-","\n","\n">> \o BodyText)
             /\ ~HasComments => EndsWith(ret.v.description, <<"\n","\n","-","-","-","\n","\n">> \o BodyText)
  /\ (Finished /\ IsRichTextCall /\ call.rich_text.t = "str")
     => IF call.rich_text.v = <<>> THEN Returned /\ ret.v = <<>> ELSE ~Returned

C4_Witness ==
  /\ LarkTextDescription /\ Returned /\ ~HasComments
  /\ BodyText = <<"b","o","d","y">>
  /\ EndsWith(ret.v.description, <<"-","-","-","\n","\n","b","o","d","y">>)

\* C5: outside a code block a text run is wrapped in bold, italic,
\* strikethrough, inline code and link, each around the ones before it
C5_InlineStylesNest ==
  (/\ Finished /\ IsRichTextCall
   /\ SoleTextRunDoc(call.rich_text)
   /\ DOMAIN SoleStyle(call.rich_text).v = {})
  => /\ Returned
     /\ ret.v = OpeningMarkers(RunStyle(call.rich_text))
                  \o RunText(call.rich_text)
                  \o ClosingMarkers(RunStyle(call.rich_text))

C5_Witness ==
  /\ IsRichTextCall /\ Returned
  /\ SoleTextRunDoc(call.rich_text)
  /\ DOMAIN SoleStyle(call.rich_text).v = {}
  /\ DOMAIN RunStyle(call.rich_text).v = {"bold", "italic", "strikethrough", "codeInline", "link"}
  /\ ret.v = <<"[", BT>> \o <<"~","~","*","*","*","x","*","*","*","~","~">> \o <<BT>> \o <<"]","(","u",")">>

\* a paragraph of one plain text run under a style of the schema's types
SolePlainRunDoc(d) ==
  /\ SoleTextRunDoc(d)
  /\ DOMAIN RunStyle(d).v = {}
  /\ TypedParagraphStyle(SoleStyle(d))

IsListItem(style) == Flag(style, "list")

\* C6: a paragraph gets one wrap only: the fence with its language when it is
\* a code block, else the quote marker when it is a quote, else the heading
\* prefix when it has a heading level
C6_ParagraphWrapIsExclusive ==
  (/\ Finished /\ IsRichTextCall
   /\ SolePlainRunDoc(call.rich_text)
   /\ ~IsListItem(SoleStyle(call.rich_text)))
  => /\ Returned
     /\ ret.v = ExpectedWrap(SoleStyle(call.rich_text), RunText(call.rich_text))

C6_Witness ==
  /\ IsRichTextCall /\ Returned
  /\ SolePlainRunDoc(call.rich_text)
  /\ {"codeBlock", "quote", "headingLevel", "codeLanguage"} = DOMAIN SoleStyle(call.rich_text).v
  /\ SoleStyle(call.rich_text).v.headingLevel.v = 2
  /\ ret.v = <<BT,BT,BT,"p","y","\n","x","\n",BT,BT,BT>>

\* C7: a list item's line starts with its indentation and list marker, put
\* before the fence, quote marker or heading prefix of the paragraph
C7_ListMarkerIsOutermost ==
  (/\ Finished /\ IsRichTextCall
   /\ SolePlainRunDoc(call.rich_text)
   /\ IsListItem(SoleStyle(call.rich_text)))
  => /\ Returned
     /\ ret.v = ExpectedListMarker(SoleStyle(call.rich_text))
                  \o ExpectedWrap(SoleStyle(call.rich_text), RunText(call.rich_text))

C7_Witness ==
  /\ IsRichTextCall /\ Returned
  /\ SolePlainRunDoc(call.rich_text)
  /\ IsListItem(SoleStyle(call.rich_text))
  /\ ret.v = <<" "," ","1","."," ","#","#"," ","x">>

\* C8: in a code-block paragraph a text run gives its raw text, whatever its
\* inline style flags
C8_CodeBlockKeepsRawText ==
  (/\ Finished /\ IsRichTextCall
   /\ SoleTextRunDoc(call.rich_text)
   /\ TypedParagraphStyle(SoleStyle(call.rich_text))
   /\ Flag(SoleStyle(call.rich_text), "codeBlock")
   /\ ~IsListItem(SoleStyle(call.rich_text)))
  => /\ Returned
     /\ ret.v = <<BT,BT,BT>> \o Get(SoleStyle(call.rich_text), "codeLanguage", Str(<<>>)).v
                  \o <<"\n">> \o RunText(call.rich_text) \o <<"\n",BT,BT,BT>>

C8_Witness ==
  /\ IsRichTextCall /\ Returned
  /\ SoleTextRunDoc(call.rich_text)
  /\ Flag(SoleStyle(call.rich_text), "codeBlock")
  /\ DOMAIN RunStyle(call.rich_text).v = {"bold", "italic", "strikethrough", "codeInline", "link"}
  /\ LinkUrl(RunStyle(call.rich_text)) = <<"u">>
  /\ ret.v = <<BT,BT,BT,"\n","h","i","\n",BT,BT,BT>>


RECURSIVE ConcatAll(_)
\* the strings one after the other, nothing between them
ConcatAll(strings) ==
  IF strings = <<>> THEN <<>> ELSE strings[1] \o ConcatAll(Tail(strings))

RECURSIVE LineStart(_, _)
\* where the i-th of the lines starts in their join by one newline, less one
LineStart(lines, i) ==
  IF i = 1 THEN 0 ELSE LineStart(lines, i - 1) + Len(lines[i - 1]) + 1

\* the document is a dict whose content is a list of paragraph dicts
StructuredDoc(d) ==
  /\ d.t = "dict" /\ "content" \in DOMAIN d.v /\ d.v.content.t = "list"
  /\ \A i \in 1..Len(d.v.content.v) : d.v.content.v[i].t = "dict"

\* the paragraph has no style of its own, and a list of elements
BareParagraph(p) ==
  /\ Get(p, "style", EmptyDict) = EmptyDict
  /\ "elements" \in DOMAIN p.v => p.v.elements.t = "list"

\* what each element of a bare paragraph renders to, in input order
ElementTexts(p) ==
  LET elements == Get(p, "elements", List(<<>>)).v
  IN [i \in 1..Len(elements) |->
        LET parts == ElementParts(elements[i], None).v
        IN ConcatAll([k \in 1..Len(parts) |-> parts[k].v])]

\* C9: a structured document of n paragraphs renders to its n paragraph lines
\* in input order with one newline between neighbours and none before or
\* after; a paragraph's elements follow one another with nothing between
\* them, and a paragraph without elements still gives its (empty) line
C9_ParagraphsJoinedByOneNewline ==
  (IsRichTextCall /\ Returned /\ StructuredDoc(call.rich_text))
  => LET content == call.rich_text.v.content.v
         n == Len(content)
         lines == [i \in 1..n |-> ParagraphLine(content[i]).v]
     IN /\ n = 0 => ret.v = <<>>
        /\ n > 0 => Len(ret.v) = LineStart(lines, n) + Len(lines[n])
        /\ \A i \in 1..n :
             /\ SubSeq(ret.v, LineStart(lines, i) + 1,
                       LineStart(lines, i) + Len(lines[i])) = lines[i]
             /\ i > 1 => ret.v[LineStart(lines, i)] = "\n"
             /\ BareParagraph(content[i])
                  => lines[i] = ConcatAll(ElementTexts(content[i]))
             /\ Get(content[i], "elements", List(<<>>)) = List(<<>>)
                  => lines[i] = <<>>

C9_Witness ==
  /\ IsRichTextCall /\ Returned /\ StructuredDoc(call.rich_text)
  /\ Len(call.rich_text.v.content.v) = 2
  /\ Get(call.rich_text.v.content.v[1], "elements", List(<<>>)) = List(<<>>)
  /\ Len(Get(call.rich_text.v.content.v[2], "elements", List(<<>>)).v) = 2
  /\ ret.v = <<"\n","c","@","u","1">>

RECURSIVE WellTypedReplies(_)
\* every reply, at every depth, is a dict whose fields are of the schema's types
WellTypedReplies(replies) ==
  /\ replies.t = "list"
  /\ \A i \in 1..Len(replies.v) :
       /\ replies.v[i].t = "dict"
       /\ Get(replies.v[i], "content", Str(<<>>)).t = "str"
       /\ Get(replies.v[i], "createdAt", Str(<<>>)).t = "str"
       /\ Get(replies.v[i], "createdBy", EmptyDict).t = "dict"
       /\ Get(Get(replies.v[i], "createdBy", EmptyDict), "name", Str(<<>>)).t = "str"
       /\ WellTypedReplies(Get(replies.v[i], "replies", List(<<>>)))

\* the call renders a comment whose fields are of the schema's types
WellTypedCommentCall ==
  /\ IsCommentNodeCall
  /\ call.content.t = "str" /\ call.author.t = "str" /\ call.created_at.t = "str"
  /\ WellTypedReplies(call.replies)

RECURSIVE PreOrder(_, _)
\* the nodes of a reply forest, each before its replies, with their depths
PreOrder(replies, depth) ==
  IF replies = <<>> THEN <<>>
  ELSE <<[node |-> replies[1], depth |-> depth]>>
       \o PreOrder(Get(replies[1], "replies", List(<<>>)).v, depth + 1)
       \o PreOrder(Tail(replies), depth)

\* the date shown for a timestamp: what stands before its first "T"
DateOf(created_at) ==
  IF \E i \in 1..Len(created_at) : created_at[i] = "T"
  THEN SubSeq(created_at, 1,
              (CHOOSE i \in 1..Len(created_at) :
                 created_at[i] = "T" /\ \A j \in 1..(i - 1) : created_at[j] # "T") - 1)
  ELSE created_at

\* the line of a node at a depth: two spaces a level, then the list item
ExpectedCommentLine(node, depth) ==
  [i \in 1..(2 * depth) |-> " "]
  \o <<"-"," ","*","*">> \o Get(Get(node, "createdBy", EmptyDict), "name", Str(<<"U","n","k","n","o","w","n">>)).v
  \o <<"*","*"," ","[">> \o DateOf(Get(node, "createdAt", Str(<<>>)).v)
  \o <<"]",":"," ">> \o Get(node, "content", Str(<<>>)).v \o <<"\n">>

\* the comment of the call, as the root of its reply tree
CalledNode ==
  Dict(("content" :> call.content) @@ ("createdBy" :> Dict("name" :> call.author))
       @@ ("createdAt" :> call.created_at) @@ ("replies" :> call.replies))

\* C10: a comment rendered at level L is its own line, indented two spaces a
\* level, directly followed by each reply rendered at level L + 1 in input
\* order: the lines of the reply tree in pre-order, a node d levels below the
\* comment indented 2 * (L + d) spaces, with no blank line anywhere
C10_RepliesRenderedPreOrder ==
  (Finished /\ WellTypedCommentCall)
  => /\ Returned
     /\ LET nodes == PreOrder(<<CalledNode>>, call.level)
        IN ret.v = ConcatAll([i \in 1..Len(nodes) |->
                                ExpectedCommentLine(nodes[i].node, nodes[i].depth)])

C10_Witness ==
  /\ WellTypedCommentCall /\ Returned
  /\ call.level = 1
  /\ Len(call.replies.v) = 2
  /\ Len(Get(call.replies.v[1], "replies", List(<<>>)).v) = 1
  /\ ret.v = <<" "," ","-"," ","*","*","A","l","i","c","e","*","*"," ","[","2","0","2","4","-","0","1","-","0","2","]",":"," ","f","i","x","e","d"," ","i","t","\n">>
             \o <<" "," "," "," ","-"," ","*","*","B","o","b","*","*"," ","[","2","0","2","4","-","0","1","-","0","3","]",":"," ","r","1","\n">>
             \o <<" "," "," "," "," "," ","-"," ","*","*","B","o","b","*","*"," ","[","2","0","2","4","-","0","1","-","0","3","]",":"," ","r","1","\n">>
             \o <<" "," "," "," ","-"," ","*","*","U","n","k","n","o","w","n","*","*"," ","[","2","0","2","4","-","0","1","-","0","4","]",":"," ","r","2","\n">>

IsFetchCommentsCall == call.fn = "_fetch_and_format_comments"

\* the activities of the call are a list of activity records
ActivityRecords ==
  /\ call.activities.ok /\ call.activities.v.t = "list"
  /\ \A i \in 1..Len(call.activities.v.v) : call.activities.v.v[i].t = "dict"

RECURSIVE TopLevelRenderings(_)
\* the rendering of every comment activity at level 0, in input order
TopLevelRenderings(activities) ==
  IF activities = <<>> THEN <<>>
  ELSE IF Get(activities[1], "name", None) = Str(<<"k","a","n","b","a","n","_","c","a","r","d","s",".","c","o","m","m","e","n","t">>)
  THEN <<_format_comment_node(
           Get(Get(activities[1], "data", EmptyDict), "comment", Str(<<>>)),
           Get(Get(activities[1], "actor", EmptyDict), "name", Str(<<"U","n","k","n","o","w","n">>)),
           Get(activities[1], "createdAt", Str(<<>>)),
           Get(Get(activities[1], "data", EmptyDict), "replies", List(<<>>)),
           0).v>>
       \o TopLevelRenderings(Tail(activities))
  ELSE TopLevelRenderings(Tail(activities))

\* C11: for a card with comments the comment block is the rule, the heading
\* "## Comments" and then the renderings of the top-level comments in input
\* order, each directly after the one before
C11_TopLevelNodesAdjacent ==
  (/\ IsFetchCommentsCall /\ Returned /\ ActivityRecords
   /\ CommentActivityCount(call.activities) > 0)
  => ret.v.markdown = <<"\n","\n","-","-","-","\n","\n","#","#"," ","C","o","m","m","e","n","t","s","\n","\n">>
                        \o ConcatAll(TopLevelRenderings(call.activities.v.v))

\* the task of the call has no comments: the backend lists an empty sequence,
\* or the card's activity records hold no comment activity
NoComments ==
  IF IsLarkDetailCall THEN call.listed.ok /\ call.listed.v = List(<<>>)
  ELSE /\ IsFetchCommentsCall \/ IsKanbanDetailCall
       /\ ActivityRecords
       /\ CommentActivityCount(call.activities) = 0

\* C12: for a task without comments the comment renderer returns the empty
\* string and no comment record, and the description either backend composes
\* has no Comments section
C12_NoCommentsNoSection ==
  /\ (IsFetchCommentsCall /\ Finished /\ NoComments)
     => Returned /\ ret.v.markdown = <<>> /\ ret.v.comments = <<>>
  /\ ((IsLarkDetailCall \/ IsKanbanDetailCall) /\ Returned /\ NoComments)
     => /\ ~Contains(ret.v.description, <<"C","o","m","m","e","n","t","s">>)
        /\ ret.v.comments = <<>>

\* a card whose two activities are no comments, and a Lark task whose comment
\* list is empty, each with a description that ends with the body
C12_Witness ==
  /\ Returned /\ NoComments
  /\ \/ IsFetchCommentsCall /\ Len(call.activities.v.v) = 2 /\ ret.v.markdown = <<>>
     \/ IsKanbanDetailCall /\ Len(call.activities.v.v) = 2
        /\ EndsWith(ret.v.description, <<"b","o","d","y">>)
     \/ IsLarkDetailCall /\ EndsWith(ret.v.description, <<"b","o","d","y">>)

\* position i of raw holds the "T" that stands between a date and a time
DateTimeSeparator(raw, i) ==
  /\ raw[i] = "T" /\ 1 < i /\ i < Len(raw)
  /\ IsDigit(raw[i - 1]) /\ IsDigit(raw[i + 1])

\* the date portion of a raw timestamp that has a date/time separator, the raw
\* timestamp itself when it has none
DisplayDate(raw) ==
  LET at == {i \in 1..Len(raw) : DateTimeSeparator(raw, i)}
  IN IF at = {} THEN raw
     ELSE SubSeq(raw, 1, (CHOOSE i \in at : \A j \in at : i <= j) - 1)

\* C13: the date on a comment's line is the date portion of the raw timestamp
\* when that has a date/time separator, and the raw timestamp unchanged when it
\* has none
C13_DisplayDateOnlyAtSeparator ==
  (IsCommentNodeCall /\ Returned /\ call.created_at.t = "str")
  => StartsWith(ret.v, Repeat(<<" "," ">>, call.level) \o <<"-"," ","*","*">> \o Fmt(call.author)
                         \o <<"*","*"," ","[">> \o DisplayDate(call.created_at.v) \o <<"]",":"," ">>)

\* a non-empty created_at that is no epoch-millisecond string: one of its
\* characters is neither a digit nor a sign, a blank or an underscore
MalformedStamp(comment) ==
  /\ "created_at" \in DOMAIN comment.v /\ comment.v.created_at.t = "str"
  /\ \E i \in 1..Len(comment.v.created_at.v) :
       /\ ~IsDigit(comment.v.created_at.v[i])
       /\ comment.v.created_at.v[i] \notin {"+", "-", " ", "_"}

\* the comments the Lark backend lists are comment records, one of them with
\* a malformed created_at
ListsMalformedStamp ==
  /\ IsLarkDetailCall /\ call.listed.ok /\ call.listed.v.t = "list"
  /\ \A i \in 1..Len(call.listed.v.v) : call.listed.v.v[i].t = "dict"
  /\ \E i \in 1..Len(call.listed.v.v) : MalformedStamp(call.listed.v.v[i])

\* what the description is to hold for each listed comment, in order: the
\* placeholder heading and the body for a malformed created_at, the body else
ExpectedCommentParts(listed) ==
  [i \in 1..Len(listed) |->
     (IF MalformedStamp(listed[i]) THEN <<"#","#","#"," ","C","o","m","m","e","n","t","\n","\n">> ELSE <<>>)
     \o Fmt(Get(listed[i], "content", Str(<<>>))) \o <<"\n","\n">>]

\* C14: when a listed Lark comment has a created_at that is no epoch-millisecond
\* string, get_task_detail returns, the description has the placeholder heading
\* and then the body for that comment, the comment is recorded with an empty
\* created_at, and the comments after it are rendered and recorded as well
C14_MalformedStampKeepsComment ==
  (ListsMalformedStamp /\ Finished /\ call.response.ok)
  => /\ Returned
     /\ InOrder(ret.v.description,
                <<<<"#","#"," ","C","o","m","m","e","n","t","s","\n","\n">>>> \o ExpectedCommentParts(call.listed.v.v))
     /\ EndsWith(ret.v.description,
                 ExpectedCommentParts(call.listed.v.v)[Len(call.listed.v.v)])
     /\ Len(ret.v.comments) = Len(call.listed.v.v)
     /\ \A i \in 1..Len(call.listed.v.v) :
          /\ ret.v.comments[i].v.content = Get(call.listed.v.v[i], "content", Str(<<>>))
          /\ MalformedStamp(call.listed.v.v[i])
               => ret.v.comments[i].v.created_at = Str(<<>>)

\* a malformed comment followed by a dated one: both rendered, both recorded
C14_Witness ==
  /\ ListsMalformedStamp /\ Returned
  /\ Len(call.listed.v.v) = 2 /\ MalformedStamp(call.listed.v.v[1])
  /\ ~MalformedStamp(call.listed.v.v[2])
  /\ Contains(ret.v.description, <<"#","#","#"," ","C","o","m","m","e","n","t","\n","\n","t","h","i","r","d","\n","\n","#","#","#"," ","2","0","2","4","-","0","1","-","0">>)
  /\ Len(ret.v.comments) = 2
  /\ ret.v.comments[1].v.created_at = Str(<<>>)

\* the task or card record a detail call has fetched
FetchedRecord ==
  IF IsLarkDetailCall
  THEN Get(Get(call.response.v, "data", EmptyDict), "task", EmptyDict)
  ELSE call.card.v

\* the record carries a numeric priority code
HasPriorityCode ==
  /\ (IsLarkDetailCall \/ IsKanbanDetailCall) /\ Returned
  /\ "priority" \in DOMAIN FetchedRecord.v /\ FetchedRecord.v.priority.t = "int"

\* a Kanban card that names its priorities
NamesPriorities ==
  /\ IsKanbanDetailCall /\ Returned
  /\ "priorities" \in DOMAIN FetchedRecord.v /\ Truthy(FetchedRecord.v.priorities)

\* the label of a priority code
PriorityLabel(p) ==
  IF p \in 0..4 THEN <<<<"N","o","n","e">>, <<"L","o","w">>, <<"M","e","d","i","u","m">>, <<"H","i","g","h">>, <<"U","r","g","e","n","t">>>>[p + 1] ELSE <<"N","o","n","e">>

\* the returned item has the label as its priority and on its priority line
ShowsPriority(label) ==
  /\ ret.v.priority = Str(label)
  /\ Contains(ret.v.description, <<"\n","*","*","P","r","i","o","r","i","t","y",":","*","*"," ">> \o label \o <<"\n">>)

\* C15 as stated: for both backends the label of the record's numeric priority
\* code is the item's priority and the one on the priority line
C15_CodeAlwaysMapped ==
  HasPriorityCode => ShowsPriority(PriorityLabel(FetchedRecord.v.priority.v))

\* C15 amended: the label of the numeric code is the item's priority and the
\* one on the priority line, for a Lark task and for a Kanban card that names no
\* priorities; a Kanban card that names priorities shows the names, joined by
\* ", ", whatever its numeric code
C15_PriorityLabelOrNames ==
  /\ (HasPriorityCode /\ ~NamesPriorities)
     => ShowsPriority(PriorityLabel(FetchedRecord.v.priority.v))
  /\ (NamesPriorities
      /\ \A i \in 1..Len(FetchedRecord.v.priorities.v) :
           Truthy(Get(FetchedRecord.v.priorities.v[i], "name", None)))
     => ShowsPriority(JoinStr(<<","," ">>, [i \in 1..Len(FetchedRecord.v.priorities.v) |->
                                       FetchedRecord.v.priorities.v[i].v.name.v]))

\* a recognised code, an unrecognised one, and a card with code and names
C15_Witness ==
  \/ /\ HasPriorityCode /\ IsLarkDetailCall /\ FetchedRecord.v.priority.v = 4
     /\ ShowsPriority(<<"U","r","g","e","n","t">>)
  \/ /\ HasPriorityCode /\ IsKanbanDetailCall /\ FetchedRecord.v.priority.v = 9
     /\ ShowsPriority(<<"N","o","n","e">>)
  \/ /\ HasPriorityCode /\ NamesPriorities /\ ShowsPriority(<<"H","i","g","h">>)

\* C16: a rendering depends on its input alone: the same document gives the
\* same markdown, and the same task and comment list give the same item in
\* every time zone the program may run in
C16_SameInputSameMarkdown ==
  /\ (IsRichTextCall /\ Finished)
     => ret = Outcome(rich_text_to_markdown(call.rich_text))
  /\ (IsLarkDetailCall /\ Finished)
     => \A utc_offset \in UtcOffsets :
          ret = Outcome(LarkGetTaskDetail(call.task_id, call.response, call.listed,
                                          utc_offset))

\* a null or empty document: None, {}, "", or a document without paragraphs
EmptyDocument(d) ==
  \/ d.t = "none"
  \/ d.t = "dict" /\ DOMAIN d.v = {}
  \/ d.t = "str" /\ d.v = <<>>
  \/ /\ d.t = "dict" /\ "content" \in DOMAIN d.v
     /\ d.v.content.t = "list" /\ d.v.content.v = <<>>

\* C17: rich_text_to_markdown returns the empty string for every null or empty
\* document
C17_EmptyDocumentRendersEmpty ==
  (IsRichTextCall /\ Finished /\ EmptyDocument(call.rich_text))
  => Returned /\ ret.v = <<>>

\* None, and a document whose paragraph sequence is empty
C17_Witness ==
  /\ IsRichTextCall /\ Returned /\ ret.v = <<>>
  /\ \/ call.rich_text.t = "none"
     \/ /\ call.rich_text.t = "dict" /\ DOMAIN call.rich_text.v = {"content"}
        /\ call.rich_text.v.content.t = "list" /\ call.rich_text.v.content.v = <<>>

\* the document is one unstyled paragraph whose elements are all dicts
OneParagraphDoc(d) ==
  /\ d.t = "dict" /\ "content" \in DOMAIN d.v
  /\ d.v.content.t = "list" /\ Len(d.v.content.v) = 1
  /\ d.v.content.v[1].t = "dict" /\ DOMAIN d.v.content.v[1].v = {"elements"}
  /\ d.v.content.v[1].v.elements.t = "list"
  /\ \A i \in 1..Len(d.v.content.v[1].v.elements.v) :
       d.v.content.v[1].v.elements.v[i].t = "dict"

\* the element is a gallery whose images are records with a string token, if any
IsGallery(element) ==
  /\ DOMAIN element.v = {"gallery"} /\ element.v.gallery.t = "dict"
  /\ "imageList" \in DOMAIN element.v.gallery.v
  /\ element.v.gallery.v.imageList.t = "list"
  /\ \A i \in 1..Len(element.v.gallery.v.imageList.v) :
       /\ element.v.gallery.v.imageList.v[i].t = "dict"
       /\ Get(element.v.gallery.v.imageList.v[i], "fileToken", Str(<<>>)).t = "str"

\* one image embed per image of the gallery, in order, nothing between them
GalleryEmbeds(element) ==
  ConcatAll([i \in 1..Len(element.v.gallery.v.imageList.v) |->
               <<"!","[","I","m","a","g","e","]","(">>
               \o Get(element.v.gallery.v.imageList.v[i], "fileToken", Str(<<>>)).v
               \o <<")">>])

\* the number of image embeds in a string
EmbedCount(s) == Cardinality({i \in 1..(Len(s) - 8) : SubSeq(s, i, i + 8) = <<"!","[","I","m","a","g","e","]","(">>})

\* C18: a gallery of k images is rendered as k image embeds, in the order of
\* the images, one directly after the other on the line of its paragraph
C18_GalleryEmbedsConcatenated ==
  (IsRichTextCall /\ Finished /\ OneParagraphDoc(call.rich_text))
  => \A i \in 1..Len(call.rich_text.v.content.v[1].v.elements.v) :
       LET elements == call.rich_text.v.content.v[1].v.elements.v
       IN IsGallery(elements[i])
          => /\ Returned
             /\ Contains(ret.v, GalleryEmbeds(elements[i]))
             /\ Len(elements) = 1 => ret.v = GalleryEmbeds(elements[i])
             /\ (\A j \in 1..Len(elements) : j # i => "textRun" \in DOMAIN elements[j].v)
                  => EmbedCount(ret.v) = Len(elements[i].v.gallery.v.imageList.v)

\* a gallery of three images between two runs, and the gallery of a and b alone
C18_Witness ==
  /\ IsRichTextCall /\ Returned
  /\ \/ ret.v = <<"x","!","[","I","m","a","g","e","]","(","a",")","!","[","I","m","a","g","e","]","(",")","!","[","I","m","a","g","e","]","(","b",")","y">>
     \/ ret.v = <<"!","[","I","m","a","g","e","]","(","a",")","!","[","I","m","a","g","e","]","(","b",")">>

IsLarkMoveCall == call.fn = "LarkBackend.move_task"
IsKanbanMoveCall == call.fn = "KanbanBackend.move_task"

\* the ways the move request of the call fails: a setting the request needs is
\* missing, nothing comes back, the status is an error, the body cannot be read,
\* or the API client raises
MoveRequestFails ==
  IF IsKanbanMoveCall
  THEN \/ call.base_url \in {None, Str(<<>>)}
       \/ call.api_key \in {None, Str(<<>>)}
       \/ ~call.http.responded
       \/ call.http.status >= 400
       \/ ~call.http.json.ok
  ELSE \/ ~call.client.constructed
       \/ ~call.client.solved.ok

IsCreateBackendCall == call.fn = "BackendFactory.create_backend"
IsGetBackendCall == call.fn = "get_backend"

\* the configuration file of the call is absent, empty or a mapping
ReadableConfig ==
  \/ ~call.file.exists
  \/ call.file.yaml.ok /\ call.file.yaml.v.t \in {"none", "dict"}

\* the value the configuration gives for a key, None when it gives none
ConfigSetting(key) ==
  IF call.file.exists /\ call.file.yaml.ok /\ call.file.yaml.v.t = "dict"
  THEN Get(call.file.yaml.v, key, None) ELSE None

\* the backend type the configuration gives
ConfiguredType == ConfigSetting("backend_type")

\* the backend type asked for: the argument, or else the configured one
RequestedType ==
  IF IsCreateBackendCall /\ Truthy(call.backend_type) THEN call.backend_type
  ELSE ConfiguredType

RaisedValueError == ret.st = "raised" /\ ret.exc = "ValueError"
ReturnedBackend(class) == Returned /\ ret.v.class = class

IsSolveCall == call.fn = "solve"

\* the bugs directory of the call before the command ran
EntriesBefore == IF call.bugs.exists THEN call.bugs.entries ELSE <<>>

\* the entry is the folder of a task: a directory, or a link to one, whose
\* name is not blank
IsTaskFolder(entry) == entry.kind \in {"dir", "link"} /\ Strip(entry.name) # <<>>

\* the service moved the task of the entry, so move_task returned True
MoveReturnedTrue(entry) ==
  IF IsStr(ConfigSetting("backend_type"), <<"k","a","n","b","a","n">>)
  THEN /\ entry.remote.http.responded /\ entry.remote.http.status < 400
       /\ entry.remote.http.json.ok
  ELSE entry.remote.client.constructed /\ entry.remote.client.solved.ok

\* the entries that are still there after the command
StillThere(entry) == \E i \in 1..Len(ret.v.entries) : ret.v.entries[i] = entry

\* C21: solve removes the folder of a task iff move_task returned True for it
\* and --keep was not given, leaves every other entry as it was, goes through
\* all the folders, and reports as moved the number of tasks whose move
\* returned True
C21_FolderRemovedIffMoved ==
  (IsSolveCall /\ Returned)
  => /\ \A i \in 1..Len(EntriesBefore) :
          ~StillThere(EntriesBefore[i])
          <=> (/\ IsTaskFolder(EntriesBefore[i]) /\ ~call.keep
               /\ MoveReturnedTrue(EntriesBefore[i]))
     /\ ret.v.entries = SelectSeq(EntriesBefore, StillThere)
     /\ ret.v.found = Cardinality({i \in 1..Len(EntriesBefore) :
                                     IsTaskFolder(EntriesBefore[i])})
     /\ ret.v.success_count
          = Cardinality({i \in 1..Len(EntriesBefore) :
                           /\ IsTaskFolder(EntriesBefore[i])
                           /\ MoveReturnedTrue(EntriesBefore[i])})

----------------------------------------------------------------------------
(* sync --dry-run *)

IsSyncCall == call.fn = "sync"

\* the elements of a sequence, as a set
Elements(seq) == {seq[i] : i \in 1..Len(seq)}

\* what the command does without --dry-run for the same repository and the
\* same configuration of the server
RealRun == sync(call.repo, FALSE, call.git, call.server).v

\* C22: with --dry-run, sync creates or modifies no file or directory, and the
\* set of paths it lists is exactly the set of files that a run without
\* --dry-run writes for the same server configuration
C22_DryRunListsWhatSyncWrites ==
  (IsSyncCall /\ Returned /\ call.dry_run)
  => /\ ret.v.files = <<>>
     /\ ret.v.dirs = <<>>
     /\ Elements(ret.v.listed) = Elements(RealRun.files)

----------------------------------------------------------------------------
(* list_tasks *)

IsLarkListCall == call.fn = "LarkBackend.list_tasks"
IsKanbanListCall == call.fn = "KanbanBackend.list_tasks"
IsListCall == IsLarkListCall \/ IsKanbanListCall

\* the ids of the tasks returned, in their order
ReturnedIds == [i \in 1..Len(ret.v) |-> ret.v[i].id.v]

\* the call gives a filter: a list of labels that is not empty
HasFilter == Truthy(call.labels)

\* the task carries a label equal, ignoring case, to a label of the filter
CarriesFilterLabel(id) ==
  \E i \in 1..Len(LabelsOfTask(id)), j \in 1..Len(call.labels.v) :
    Lower(LabelsOfTask(id)[i].v) = Lower(call.labels.v[j].v)

\* the task is one the call asks for
AskedFor(id) == ~HasFilter \/ CarriesFilterLabel(id)

\* C23: for both backends, list_tasks with a label filter returns exactly the
\* tasks of the section that carry a label equal, ignoring case, to a label of
\* the filter, in the section's order, and with no filter every task of the section
C23_TasksOfSectionWithLabel ==
  (IsListCall /\ Returned) => ReturnedIds = SelectSeq(call.in_section, AskedFor)

\* C26: KanbanBackend.list_tasks returns only cards of the list whose id is
\* section_id, never a card of another list or a card of the board that is in
\* no list, and it returns every card of that list that passes the label filter
C26_CardsOfTheListAndOnlyThose ==
  (IsKanbanListCall /\ Returned)
  => /\ \A i \in 1..Len(ret.v) : ret.v[i].id.v \in Elements(call.in_section)
     /\ \A i \in 1..Len(call.in_section) :
          AskedFor(call.in_section[i]) => call.in_section[i] \in Elements(ReturnedIds)

----------------------------------------------------------------------------
(* download *)

IsDownloadCall == call.fn = "download"

\* the command came to its end
Completed == Returned /\ ret.v.exit = "return"

\* the directory and the section the command used
DirUsed == OrElse(call.bugs_dir_option, ConfigSetting("bugs_dir")).v
SectionUsed ==
  OrElse(call.section,
         ConfigSetting(IF IsStr(get_backend_type(call.file).v, <<"k","a","n","b","a","n">>)
                       THEN "kanban_list_id" ELSE "section_guid"))

\* the tasks list_tasks returned to a download that completed
TasksListed ==
  ListTasksOf(get_backend(call.file).v, SectionUsed, LabelsOption(call.labels),
              call.remote, call.utc_offset).v

DescriptionPath(task_item) == <<DirUsed, task_item.id.v, <<"d","e","s","c","r","i","p","t","i","o","n",".","m","d">>>>

DescriptionPaths == {DescriptionPath(TasksListed[i]) : i \in 1..Len(TasksListed)}

\* the same command once more, on the file system the first run left
SecondRun ==
  download(call.labels, call.section, call.bugs_dir_option, call.file, call.remote,
           call.utc_offset, ret.v.fs).v

\* C24: after download completes for a task list that is not empty, each task
\* has its description in <bugs_dir>/<id>/description.md, the count reported is
\* the number of tasks, every other file and folder is as it was, and a second
\* run with the same remote state leaves the file system unchanged
C24_DescriptionsWritten ==
  (IsDownloadCall /\ Completed /\ TasksListed # <<>>)
  => /\ \A i \in 1..Len(TasksListed) :
          /\ DescriptionPath(TasksListed[i]) \in DOMAIN ret.v.fs.files
          /\ ret.v.fs.files[DescriptionPath(TasksListed[i])] = TasksListed[i].description
     /\ ret.v.downloaded_count = Len(TasksListed)
     /\ DOMAIN ret.v.fs.files = DOMAIN call.fs.files \cup DescriptionPaths
     /\ \A path \in DOMAIN call.fs.files \ DescriptionPaths :
          ret.v.fs.files[path] = call.fs.files[path]
     /\ call.fs.dirs \subseteq ret.v.fs.dirs
     /\ ret.v.fs.dirs \ call.fs.dirs \subseteq UNION {Prefixes(SubSeq(p, 1, 2)) : p \in DescriptionPaths}
     /\ SecondRun.exit = "return"
     /\ SecondRun.fs = ret.v.fs

\* a download of two tasks into a directory that holds an older description of
\* one of them, a note beside it and the folder of another task
C24_Witness ==
  /\ IsDownloadCall /\ Completed
  /\ Len(TasksListed) = 2
  /\ call.fs = EarlierFiles
  /\ DirUsed = <<"b","u","g","s">>
  /\ \E i \in 1..2 : TasksListed[i].id.v = <<"t","1">>
  /\ ret.v.fs.files[<<<<"b","u","g","s">>, <<"t","1">>, <<"d","e","s","c","r","i","p","t","i","o","n",".","m","d">>>>] # <<"o","l","d">>
  /\ ret.v.fs.files[<<<<"b","u","g","s">>, <<"t","1">>, <<"n","o","t","e","s",".","m","d">>>>] = <<"m","i","n","e">>
  /\ ret.v.fs.files[<<<<"b","u","g","s">>, <<"t","9">>, <<"d","e","s","c","r","i","p","t","i","o","n",".","m","d">>>>] = <<"o","t","h","e","r">>

----------------------------------------------------------------------------
(* the depth of nesting *)

\* the greatest of a set of naturals, 0 for the empty set
Greatest(S) == IF S = {} THEN 0 ELSE CHOOSE x \in S : \A y \in S : y <= x

\* the elements of the paragraphs of a document that are callouts
CalloutsOf(rich_text) ==
  IF rich_text.t # "dict" \/ Get(rich_text, "content", None).t # "list" THEN {}
  ELSE UNION {
         IF p.t # "dict" \/ Get(p, "elements", None).t # "list" THEN {}
         ELSE {e \in Elements(Get(p, "elements", None).v) :
                 e.t = "dict" /\ Get(e, "callout", None).t = "dict"} :
         p \in Elements(Get(rich_text, "content", None).v)}

RECURSIVE CalloutDepth(_)
\* how deep the callouts of a document nest: 0 without a callout
CalloutDepth(rich_text) ==
  Greatest({1 + CalloutDepth(Get(Get(e, "callout", None), "content", EmptyDict)) :
              e \in CalloutsOf(rich_text)})

RECURSIVE ReplyDepth(_)
\* how deep the replies of a comment nest: 0 without a reply
ReplyDepth(replies) ==
  IF replies.t # "list" THEN 0
  ELSE Greatest({1 + (IF r.t = "dict" THEN ReplyDepth(Get(r, "replies", List(<<>>))) ELSE 0) :
                   r \in Elements(replies.v)})

\* a bound on the nesting below the deepest input of the model
SafetyBound == MaxDepth - 1

\* C25: rendering input nested deeper than a fixed safety bound, callouts in
\* callouts or replies in replies, ends with a condition signalled to the
\* caller and not with the rendering of every level
C25_DeepNestingRefused ==
  /\ (IsRichTextCall /\ Finished /\ CalloutDepth(call.rich_text) > SafetyBound)
     => ret.st = "raised"
  /\ (IsCommentNodeCall /\ Finished /\ ReplyDepth(call.replies) > SafetyBound)
     => ret.st = "raised"

----------------------------------------------------------------------------
(* the comments of a Lark task and the Comments section of its description *)

CommentsHeading == <<"\n","\n","-","-","-","\n","\n","#","#"," ","C","o","m","m","e","n","t","s","\n","\n">>

HasCommentsSection(description) == Find(description, CommentsHeading, 1) # 0

\* the text of the description below the heading of its Comments section
CommentsSectionOf(description) ==
  SubSeq(description, Find(description, CommentsHeading, 1) + Len(CommentsHeading),
         Len(description))

RECURSIVE Blocks(_)
\* the blocks of s, each of them closed by a blank line
Blocks(s) ==
  IF Find(s, <<"\n","\n">>, 1) = 0 THEN (IF s = <<>> THEN <<>> ELSE <<s>>)
  ELSE <<SubSeq(s, 1, Find(s, <<"\n","\n">>, 1) - 1)>>
       \o Blocks(SubSeq(s, Find(s, <<"\n","\n">>, 1) + 2, Len(s)))

IsCommentBody(block) == ~StartsWith(block, <<"#","#","#"," ">>)

\* the comment bodies the description shows, in their order
EmittedBodies(description) ==
  IF HasCommentsSection(description)
  THEN SelectSeq(Blocks(CommentsSectionOf(description)), IsCommentBody)
  ELSE <<>>

\* the bodies of the records of a comments list, in their order
RecordedBodies(comments) == [i \in 1..Len(comments) |-> Fmt(comments[i].v.content)]

\* C27: in the TaskItem LarkBackend.get_task_detail returns, the comments list
\* holds one record per comment body of the description's Comments section, in
\* the same order, and is empty iff the description has no Comments section
C27_CommentsAgreeWithDescription ==
  (IsLarkDetailCall /\ Returned)
  => /\ RecordedBodies(ret.v.comments) = EmittedBodies(ret.v.description)
     /\ (ret.v.comments = <<>>) <=> ~HasCommentsSection(ret.v.description)

----------------------------------------------------------------------------
(* setup and the configuration it stores *)

IsSetupCall == call.fn = "setup"

SetupComplete == IsSetupCall /\ Returned /\ ret.v.exit = "return"

\* setup ended by an abort or by an exception
SetupFailed == IsSetupCall /\ Returned /\ ret.v.exit # "return"

\* the mapping a configuration file stores, empty when it stores none
StoredIn(file) ==
  IF load_config(file).ok /\ load_config(file).v.t = "dict" THEN load_config(file).v.v
  ELSE <<>>

SameSettings(a, b) ==
  /\ DOMAIN a = DOMAIN b
  /\ \A k \in DOMAIN a : a[k].t = b[k].t /\ a[k] = b[k]

\* the value stored for a key once setup has ended
StoredAfter(key) == IF key \in DOMAIN StoredIn(ret.v.file) THEN StoredIn(ret.v.file)[key] ELSE None

\* the backend chosen at the first prompt: the one typed, or the current one
ChoseLark ==
  IF call.choice = <<>> THEN IsStr(get_backend_type(call.file).v, <<"l","a","r","k">>)
  ELSE call.choice = <<"1">>

\* the entry a selection names: 0 when it names none
Written(answer) ==
  CASE answer \in {<<"1">>, <<" ","1"," ">>} -> 1
    [] answer = <<"2">> -> 2
    [] answer = <<"3">> -> 3
    [] OTHER -> 0

RECURSIVE FirstIn(_, _, _)
\* the first of the answers that names one of n entries, as the entry it names
FirstIn(answers, default, n) ==
  IF answers = <<>> THEN 0
  ELSE LET named == Written(IF answers[1] = <<>> THEN default ELSE answers[1])
       IN IF named \in 1..n THEN named ELSE FirstIn(Tail(answers), default, n)

\* the boards the service lists, and the sections of the i-th of them
BoardItems ==
  IF ChoseLark THEN call.remote.tasklists.v.v.data.v.items.v ELSE call.remote.boards.v.v

SectionItems(i) ==
  IF ChoseLark THEN call.remote.sections[i].v.v.data.v.items.v
  ELSE call.remote.board_info[i].v.v.lists.v

IdOf(item) == IF ChoseLark THEN item.v.guid ELSE item.v.id

BoardNamed == FirstIn(call.answers.board, <<"1">>, Len(BoardItems))

\* the stored value is the id of the entry the answers name
StoresEntry(key, items, answers, default) ==
  /\ FirstIn(answers, default, Len(items)) \in 1..Len(items)
  /\ StoredAfter(key).t = "str"
  /\ StoredAfter(key) = IdOf(items[FirstIn(answers, default, Len(items))])

\* C28: when setup runs to completion the stored configuration passes
\* is_configured, its backend type is the one chosen, and the board and the two
\* sections stored are those the answers name among the boards listed and the
\* sections of that board, an answer naming an entry only if it writes a
\* number from 1 to the length of the list
C28_CompleteSetupIsConfigured ==
  SetupComplete
  => /\ is_configured(ret.v.file) = Ok(TRUE)
     /\ IsStr(StoredAfter("backend_type"), IF ChoseLark THEN <<"l","a","r","k">> ELSE <<"k","a","n","b","a","n">>)
     /\ StoresEntry(IF ChoseLark THEN "tasklist_guid" ELSE "kanban_board_id",
                    BoardItems, call.answers.board, <<"1">>)
     /\ StoresEntry(IF ChoseLark THEN "section_guid" ELSE "kanban_list_id",
                    SectionItems(BoardNamed), call.answers.section, <<"1">>)
     /\ StoresEntry(IF ChoseLark THEN "solved_section_guid" ELSE "kanban_done_list_id",
                    SectionItems(BoardNamed), call.answers.solved, <<"2">>)

\* C29: when setup ends by an abort or a failure the stored configuration is
\* the one stored before setup started
C29_FailedSetupChangesNothing ==
  SetupFailed => SameSettings(StoredIn(ret.v.file), StoredIn(call.file))
====
